---- MODULE Spec2Model ----
(***************************************************************************)
(* Helmet-camera capture coordinator.                                      *)
(*                                                                         *)
(* Master side: src/Master/master_helmet_system.py, class                  *)
(* MQTTMasterService (command issue, response processing, timeout sweep)   *)
(* called from MasterHelmetSystem.capture_single_photo, which the trigger  *)
(* threads run without any lock.                                           *)
(* Peer side: src/Slave/camera/services.py, class MQTTCameraService.       *)
(* Trigger loops and lifecycle: classes AutoCaptureManager and             *)
(* MasterHelmetSystem of the same master file; dashboard endpoints:        *)
(* src/Master/web_master_server.py.                                        *)
(*                                                                         *)
(* Time is counted in ticks of 60 s (polling_interval); every              *)
(* comparison of the code is a comparison of differences of clock          *)
(* readings, which is kept as written.                                     *)
(***************************************************************************)
EXTENDS Integers, Sequences, FiniteSets, TLC

\* ---------------------------------------------------------------- bounds
\* cap on command_counter (the code's counter is unbounded)
MaxId == 2
\* cap on the clock
MaxTime == 1
\* cap on the number of inbound frames the bus delivers to the master
MaxFrames == 2

\* cap on the commands delivered to the peer
MaxDeliveries == 4
\* largest command id delivered to the peer
MaxCmdId == 2
\* caps on the peer's clock and calendar
MaxPeerTime == 4
MaxDate == 2

\* cap on the trigger loops' clock
MaxTrigTime == 7
\* cap on the falling edges of the input line
MaxEdges == 2
\* cap on the requests to the web command endpoint
MaxRequests == 1
\* calls of capture_single_photo followed from start to return
MaxCaptures == 2
\* ticks that save an IMU entry
MaxSaves == 3
\* master-camera attempts of the two concurrent trigger threads
MaxShots == 4
\* HIGH periods of the watcher's pin, and the end of its clock
MaxPeriods == 3
MaxWatchTime == 6
\* config["min_high_duration"], in clock steps
MinHighDuration == 2

\* ------------------------------------------------------ program constants
\* self.session_timeout = 1800 seconds = 1 peer tick
SessionTimeout == 1
\* "Start new session after 100 photos"
SessionPhotoLimit == 100
\* first reading of the peer's clock
PeerStartTime == 2
\* first reading of the trigger loops' clock (250 ms units)
TrigStartTime == 3
\* self.polling_interval = 60 seconds = 1 tick
PollingInterval == 1
\* imu_movement_cooldown_seconds, configured as 0.75 s = 3 units of 250 ms
Cooldown == 3
\* imu_movement_threshold, default 2.0
Threshold == 2
\* time.sleep(0.5) = 2 units of 250 ms
Debounce == 2
\* timer_interval_seconds, configured as 0.25 s = 1 unit
TimerInterval == 1

\* ------------------------------------------------------------ input sets
\* client ids that appear in inbound frames
Clients == {"p1", "p2"}
\* config["slaves"]: the configured peer set, fixed at construction
SlaveConfigs == {{"p1", "p2"}, {"p1"}, {}}
\* config["timeout_ms"] / 1000, in ticks. The clock is read in whole ticks, so
\* 0 stands for timeout_ms = 0 and for every timeout below one tick alike (the
\* default 5 s), 1 for one tick
TimeoutConfigs == {0, 1}
\* the trigger threads, which all call capture_single_photo (lines 513, 571, 621)
Threads == {"timer", "imu", "gpio"}
\* the two of them that ConcurrentSpec runs at once
ConcurrentThreads == {"timer", "imu"}
\* values of response.get("status"): "ok", "timeout", anything else
Statuses == {"ok", "error", "timeout"}
FrameIds == 1..MaxId
\* commands the bus delivers to the peer
Commands == {[id |-> i, type |-> ty] : i \in 1..MaxCmdId, ty \in {"capture", "poll"}}
PhotoResults == {"path", "none", "raise"}
\* config["client_id"] of the modelled peer
PeerClientId == "p1"
\* self.last_acceleration = None: no sample yet (a magnitude is never negative)
NoAcceleration == -1
\* read_data's {"available": False, ...}
Unavailable == -2
\* command_id of a capture_single_photo call whose command was not issued
NoCommand == 0
\* GPIOWatcher.last_high_time = None
NoTime == -1
\* GPIOWatcher.wifi_timer = None
NoTimer == [state |-> "none", due |-> 0]
\* acceleration magnitudes the sensor reports
Magnitudes == {0, 3}
\* 'count' and 'interval' of a web command request
Counts == {1, 2}
Intervals == {0, 5}

\* An inbound frame. kind "garbage": the payload is not a JSON object.
\* has_file: the response carries the 'file' and 'jitter_us' keys.
GarbageFrame ==
    [kind |-> "garbage", id |-> 0, client |-> "p1", status |-> "error", has_file |-> FALSE]
JsonFrames ==
    {[kind |-> "json", id |-> i, client |-> c, status |-> s, has_file |-> h] :
        i \in FrameIds, c \in Clients, s \in Statuses, h \in BOOLEAN}
Frames ==
    {f \in JsonFrames : f.status = "ok" \/ f.has_file} \cup {GarbageFrame}

VARIABLES
    \* configuration
    slaves, command_timeout,
    \* MQTTMasterService fields
    connected, command_counter, pending_commands, stats, board_stats, last_poll_time,
    \* wall clock (time.time())
    now,
    \* per trigger thread: position in capture_single_photo and its live locals
    \* (a local is reset when the function that owns it returns)
    pc, loc,
    \* timeout checker thread: position and its current_time local
    sw_pc, sw_time,
    \* history: ids handed out in order, counter credits per (id, peer),
    \* Issues that returned success, ids whose publish failed, frames delivered
    \* (last_frame: the last one, and whether its id was pending on arrival)
    given, credited, issued_ok, failed_ids, nframes, last_frame,
    \* MQTTCameraService fields (one peer)
    last_command_id, last_capture_status, current_session_dir, current_session_date,
    last_capture_time, photos_in_session,
    \* the peer's clock, calendar date and the session directories on its disk
    p_clock, p_date, dirs,
    \* responses the peer published; history of the commands delivered to it
    \* (camera: whether that delivery called the camera driver; rolled: whether
    \* it started a new session; driver_ok: whether the driver returned a path)
    sent, delivered,
    \* MasterHelmetSystem.running and the main thread's position in start()
    \* and cleanup()
    running, main_pc,
    \* config["capture_triggers"]: the trigger that is enabled
    enabled,
    \* AutoCaptureManager flags and movement-detector fields
    timer_running, imu_monitoring, gpio20_monitoring, last_imu_capture, last_acceleration,
    \* per trigger thread: position in its loop, and the earliest clock reading
    \* at which its current sleep ends
    lpc, wake,
    \* wall clock as the trigger loops read it, in units of 250 ms
    t_now,
    \* locals of imu_monitor_loop (current_time, current_acceleration) and of
    \* gpio20_monitor_loop (last_state, current_state)
    imu_loc, last_state, current_state,
    \* the level of input pin 20
    line,
    \* history: the calls of capture_single_photo the trigger loops made, the
    \* falling edges of the line, the answers of the web command endpoint
    ticks, edges, web_log,
    \* a get_detailed_status call in progress: position, the values read so
    \* far, and (history) the states the service went through during the call
    snap_pc, snap, snap_seen,
    \* MasterIMUSensor: its available flag, and what read_data returns at this
    \* moment (an acceleration magnitude, or Unavailable)
    imu_available, imu_data,
    \* a capture_single_photo call in progress: position and locals
    cap,
    \* the master_imu value of every capture envelope handed to publish, and
    \* the entries of the master's IMU log, both by command id
    envelopes, imu_log,
    \* history: the capture_single_photo calls that returned
    tick_log,
    \* JsonLogger.photo_count of the master's session logger
    photo_count,
    \* JsonLogger.session: the entries of "photos" and "failures" in the order
    \* they were appended, each with its kind and its index
    session,
    \* history: the photo_count handed to master_camera.capture for the file
    \* name, one per attempt
    names,
    \* per trigger thread: the master-camera block of a capture_single_photo
    \* call in progress (position, the capture's outcome, the photo_count
    \* loaded by `+=`)
    shot,
    \* the standalone GPIOWatcher of the peer: the level of its input pin and
    \* the clock of its timers
    level, w_now,
    \* GPIOWatcher.last_high_time, .wifi_scan_triggered, .wifi_timer and
    \* ._gpio_initialized
    last_high_time, wifi_scan_triggered, wifi_timer, gpio_initialized,
    \* the number of the current HIGH period (rising edges handled so far), the
    \* periods whose timer ran out with the pin still HIGH, the
    \* scan_and_connect_wifi threads started and not yet run (each by the period
    \* that started it), and the network scans that were run
    period, held, scan_threads, scan_log,
    \* per trigger thread: a _save_imu_data call in progress (position, the
    \* command id and reading it was given, the log it loaded from the file)
    save

masterVars ==
    <<slaves, command_timeout, connected, command_counter, pending_commands, stats,
      board_stats, last_poll_time, now, pc, loc, sw_pc, sw_time,
      given, credited, issued_ok, failed_ids, nframes, last_frame>>

peerVars ==
    <<last_command_id, last_capture_status, current_session_dir, current_session_date,
      last_capture_time, photos_in_session, p_clock, p_date, dirs, sent, delivered>>

\* Everything of the trigger loops, the lifecycle and the dashboard except
\* lpc (the issuer moves it on return) and snap_seen (every step of the
\* service adds to it).
loopVars ==
    <<running, main_pc, enabled, timer_running, imu_monitoring, gpio20_monitoring,
      last_imu_capture, last_acceleration, wake, t_now, imu_loc, last_state,
      current_state, line, ticks, edges, web_log, snap_pc, snap>>

\* The inertial sensor and one capture_single_photo call followed from its
\* first statement to its return.
capVars ==
    <<imu_available, imu_data, cap, envelopes, imu_log, tick_log, photo_count, session,
      names, shot, save>>

gpioVars ==
    <<level, w_now, last_high_time, wifi_scan_triggered, wifi_timer, gpio_initialized,
      period, held, scan_threads, scan_log>>

trigVars == <<loopVars, capVars, gpioVars>>

vars == <<masterVars, peerVars, lpc, snap_seen, trigVars>>

cfgVars == <<slaves, command_timeout>>
histVars == <<given, credited, issued_ok, failed_ids, nframes, last_frame>>

\* ---------------------------------------------------------------- helpers
EmptyMap == [x \in {} |-> 0]

\* the dictionary get_detailed_status builds, before anything is read into it
InitSnap == [global_stats |-> 0, board_stats |-> 0, pending_commands |-> 0]

MapPut(m, k, v) == [x \in DOMAIN m \cup {k} |-> IF x = k THEN v ELSE m[x]]

MapDel(m, ks) == [x \in DOMAIN m \ ks |-> m[x]]

InitBoardStat ==
    [total_commands |-> 0, successful_responses |-> 0, failed_responses |-> 0,
     timeout_responses |-> 0, response_count |-> 0, status |-> "unknown"]

\* GPIOWatcher.__init__ (Slave/camera/services.py lines 556-569) with
\* _setup_gpio done (lines 571-603): the pin is pulled down, no HIGH seen,
\* no timer.
WatcherInit ==
    /\ level = "LOW"
    /\ w_now = 0
    /\ last_high_time = NoTime
    /\ wifi_scan_triggered = FALSE
    /\ wifi_timer = NoTimer
    /\ gpio_initialized = TRUE
    /\ period = 0
    /\ held = {}
    /\ scan_threads = {}
    /\ scan_log = <<>>

\* A trigger thread outside the master-camera block.
InitShot == [pc |-> "idle", photo |-> "none", loaded |-> 0]

\* camera/services.py lines 1027-1039 and 1046-1051: log_success with a path
\* appends to "photos"; log_success without one and log_failure append to
\* "failures"; the index is the photo_count of that moment.
LogEntry(photo, index) ==
    [kind |-> IF photo = "path" THEN "photo" ELSE "failure", index |-> index]

\* no _save_imu_data call in progress
InitSave == [pc |-> "idle", command_id |-> NoCommand, imu_data |-> 0, imu_log |-> EmptyMap]

\* capture_single_photo before its first statement
InitCap ==
    [pc |-> "idle", pulse_success |-> FALSE, command_id |-> NoCommand,
     attempted |-> FALSE, photo |-> "none", reads |-> 0]

InitLoc == [reg |-> 0, command_id |-> 0, key |-> 0, current_time |-> 0]

NewEntry(ts, type) ==
    [slaves_waiting |-> slaves, responses |-> EmptyMap, timestamp |-> ts, type |-> type]

\* What get_detailed_status reports of the service (lines 380-382).
StatusView == <<stats, board_stats, Cardinality(DOMAIN pending_commands)>>

\* History kept while a get_detailed_status call is reading: every state the
\* service goes through.
Observe ==
    snap_seen' = IF snap_pc \in {"idle", "done"} THEN snap_seen
                 ELSE snap_seen \cup {StatusView'}

MasterInit ==
    /\ slaves \in SlaveConfigs
    /\ command_timeout \in TimeoutConfigs
    /\ connected = FALSE
    /\ command_counter = 0
    /\ pending_commands = EmptyMap
    /\ stats = [total_commands |-> 0, successful_responses |-> 0,
                failed_responses |-> 0, timeout_responses |-> 0,
                master_captures |-> 0, master_capture_failures |-> 0]
    /\ board_stats = [s \in slaves |-> InitBoardStat]
    /\ last_poll_time = 0
    /\ now = 0
    /\ pc = [t \in Threads |-> "idle"]
    /\ loc = [t \in Threads |-> InitLoc]
    /\ sw_pc = "start"
    /\ sw_time = 0
    /\ given = <<>>
    /\ credited = [k \in FrameIds \X Clients |-> 0]
    /\ issued_ok = [capture |-> 0, poll |-> 0]
    /\ failed_ids = {}
    /\ nframes = 0
    /\ last_frame = [kind |-> "none", id |-> 0, known |-> FALSE]

\* ------------------------------------------------------------ environment
Tick ==
    /\ now < MaxTime
    /\ now' = now + 1
    /\ UNCHANGED <<cfgVars, connected, command_counter, pending_commands, stats,
                   board_stats, last_poll_time, pc, loc, sw_pc, sw_time, histVars, peerVars, lpc,
                   trigVars>>
    /\ Observe

on_connect ==
    /\ connected' = TRUE
    /\ UNCHANGED <<cfgVars, command_counter, pending_commands, stats, board_stats,
                   last_poll_time, now, pc, loc, sw_pc, sw_time, histVars, peerVars, lpc,
                   trigVars>>
    /\ Observe

on_disconnect ==
    /\ connected' = FALSE
    /\ UNCHANGED <<cfgVars, command_counter, pending_commands, stats, board_stats,
                   last_poll_time, now, pc, loc, sw_pc, sw_time, histVars, peerVars, lpc,
                   trigVars>>
    /\ Observe

\* ------------------------------------------------- MQTTMasterService: issue
\* Everything a trigger thread leaves alone. The step on which
\* capture_single_photo returns (pc goes back to "idle") takes the thread's
\* loop, if it is running one, to the statement after the call.
ThreadFrame ==
    /\ UNCHANGED <<cfgVars, connected, now, sw_pc, sw_time, board_stats, credited,
                   nframes, last_frame, peerVars, trigVars>>
    /\ lpc' = [t \in Threads |->
                 IF lpc[t] = "call" /\ pc[t] # "idle" /\ pc'[t] = "idle"
                    THEN "ret" ELSE lpc[t]]
    /\ Observe

\* send_capture_command, lines 317-322: the connected check, then the load half
\* of `self.command_counter += 1`.
send_capture_command_load(t) ==
    /\ pc[t] = "idle"
    /\ IF ~connected
          THEN /\ pc' = [pc EXCEPT ![t] = "poll"]
               /\ loc' = [loc EXCEPT ![t] = InitLoc]
          ELSE /\ command_counter < MaxId
               /\ pc' = [pc EXCEPT ![t] = "cap_store"]
               /\ loc' = [loc EXCEPT ![t] = [InitLoc EXCEPT !.reg = command_counter]]
    /\ UNCHANGED <<command_counter, pending_commands, stats, last_poll_time,
                   given, issued_ok, failed_ids>>
    /\ ThreadFrame

\* line 322: the store half of `self.command_counter += 1`.
send_capture_command_store(t) ==
    /\ pc[t] = "cap_store"
    /\ command_counter' = loc[t].reg + 1
    /\ pc' = [pc EXCEPT ![t] = "cap_readid"]
    /\ UNCHANGED <<loc, pending_commands, stats, last_poll_time, given, issued_ok,
                   failed_ids>>
    /\ ThreadFrame

\* line 323: command_id = self.command_counter.
send_capture_command_readid(t) ==
    /\ pc[t] = "cap_readid"
    /\ loc' = [loc EXCEPT ![t].command_id = command_counter, ![t].key = command_counter]
    /\ given' = Append(given, command_counter)
    /\ pc' = [pc EXCEPT ![t] = "cap_insert"]
    /\ UNCHANGED <<command_counter, pending_commands, stats, last_poll_time,
                   issued_ok, failed_ids>>
    /\ ThreadFrame

\* lines 344-349: the insert under response_lock; timestamp is time.time().
send_capture_command_insert(t) ==
    /\ pc[t] = "cap_insert"
    /\ pending_commands' = MapPut(pending_commands, loc[t].command_id, NewEntry(now, "capture"))
    /\ pc' = [pc EXCEPT ![t] = "cap_publish"]
    /\ UNCHANGED <<loc, command_counter, stats, last_poll_time, given, issued_ok,
                   failed_ids>>
    /\ ThreadFrame

\* What the Issuer does to the Pending Table when the publish did not succeed
\* (lines 361-367: log and return None).
PublishFailed(p, id) == p

\* lines 355-367: publish; on success the load half of
\* `self.stats["total_commands"] += 1`, otherwise return None.
send_capture_command_publish(t) ==
    /\ pc[t] = "cap_publish"
    /\ \E rc_ok \in BOOLEAN :
          IF rc_ok
             THEN /\ loc' = [loc EXCEPT ![t].reg = stats.total_commands]
                  /\ pc' = [pc EXCEPT ![t] = "cap_count"]
                  /\ UNCHANGED <<pending_commands, failed_ids>>
             ELSE /\ pending_commands' = PublishFailed(pending_commands, loc[t].command_id)
                  /\ failed_ids' = failed_ids \cup {loc[t].command_id}
                  /\ pc' = [pc EXCEPT ![t] = "poll"]
                  /\ loc' = [loc EXCEPT ![t] = InitLoc]
    /\ UNCHANGED <<command_counter, stats, last_poll_time, given, issued_ok>>
    /\ ThreadFrame

\* line 358: the store half of `self.stats["total_commands"] += 1`; line 360
\* returns command_id.
send_capture_command_count(t) ==
    /\ pc[t] = "cap_count"
    /\ stats' = [stats EXCEPT !.total_commands = loc[t].reg + 1]
    /\ issued_ok' = [issued_ok EXCEPT !.capture = @ + 1]
    /\ pc' = [pc EXCEPT ![t] = "poll"]
    /\ loc' = [loc EXCEPT ![t] = InitLoc]
    /\ UNCHANGED <<command_counter, pending_commands, last_poll_time, given,
                   failed_ids>>
    /\ ThreadFrame

\* send_poll_message (called at line 829 of capture_single_photo), lines
\* 134-141: the two early returns, then the load half of the increment.
send_poll_message_load(t) ==
    /\ pc[t] = "poll"
    /\ IF ~connected \/ now - last_poll_time < PollingInterval
          THEN /\ pc' = [pc EXCEPT ![t] = "idle"]
               /\ UNCHANGED loc
          ELSE /\ command_counter < MaxId
               /\ pc' = [pc EXCEPT ![t] = "poll_store"]
               /\ loc' = [loc EXCEPT ![t].reg = command_counter, ![t].current_time = now]
    /\ UNCHANGED <<command_counter, pending_commands, stats, last_poll_time,
                   given, issued_ok, failed_ids>>
    /\ ThreadFrame

\* line 141: the store half of `self.command_counter += 1`.
send_poll_message_store(t) ==
    /\ pc[t] = "poll_store"
    /\ command_counter' = loc[t].reg + 1
    /\ pc' = [pc EXCEPT ![t] = "poll_build"]
    /\ UNCHANGED <<loc, pending_commands, stats, last_poll_time, given, issued_ok,
                   failed_ids>>
    /\ ThreadFrame

\* lines 142-147: the envelope takes "id": self.command_counter.
send_poll_message_build(t) ==
    /\ pc[t] = "poll_build"
    /\ loc' = [loc EXCEPT ![t].command_id = command_counter]
    /\ given' = Append(given, command_counter)
    /\ pc' = [pc EXCEPT ![t] = "poll_insert"]
    /\ UNCHANGED <<command_counter, pending_commands, stats, last_poll_time,
                   issued_ok, failed_ids>>
    /\ ThreadFrame

\* lines 150-156: the insert under response_lock, keyed by a fresh read of
\* self.command_counter, stamped with current_time of line 137.
send_poll_message_insert(t) ==
    /\ pc[t] = "poll_insert"
    /\ pending_commands' =
          MapPut(pending_commands, command_counter, NewEntry(loc[t].current_time, "poll"))
    /\ loc' = [loc EXCEPT ![t].key = command_counter]
    /\ pc' = [pc EXCEPT ![t] = "poll_publish"]
    /\ UNCHANGED <<command_counter, stats, last_poll_time, given, issued_ok, failed_ids>>
    /\ ThreadFrame

\* lines 158-170: publish; success sets last_poll_time, failure only logs.
send_poll_message_publish(t) ==
    /\ pc[t] = "poll_publish"
    /\ \E rc_ok \in BOOLEAN :
          IF rc_ok
             THEN /\ last_poll_time' = loc[t].current_time
                  /\ issued_ok' = [issued_ok EXCEPT !.poll = @ + 1]
                  /\ UNCHANGED <<pending_commands, failed_ids>>
             ELSE /\ pending_commands' = PublishFailed(pending_commands, loc[t].command_id)
                  /\ failed_ids' = failed_ids \cup {loc[t].command_id}
                  /\ UNCHANGED <<last_poll_time, issued_ok>>
    /\ pc' = [pc EXCEPT ![t] = "idle"]
    /\ loc' = [loc EXCEPT ![t] = InitLoc]
    /\ UNCHANGED <<command_counter, stats, given>>
    /\ ThreadFrame

\* --------------------------------------- MQTTMasterService: responses
\* fault: the per-board response_count is not incremented
UpdateBoardStat_NoCount(bs, status) ==
    LET seen == [bs EXCEPT !.total_commands = @ + 1]
    IN  IF status = "ok"
           THEN [seen EXCEPT !.successful_responses = @ + 1, !.status = "online"]
        ELSE IF status = "timeout"
           THEN [seen EXCEPT !.timeout_responses = @ + 1, !.status = "timeout"]
        ELSE [seen EXCEPT !.failed_responses = @ + 1, !.status = "error"]

\* lines 224-251: the per-board update for a response with this status.
UpdateBoardStat(bs, status) ==
    LET seen == [bs EXCEPT !.total_commands = @ + 1, !.response_count = @ + 1]
    IN  IF status = "ok"
           THEN [seen EXCEPT !.successful_responses = @ + 1, !.status = "online"]
        ELSE IF status = "timeout"
           THEN [seen EXCEPT !.timeout_responses = @ + 1, !.status = "timeout"]
        ELSE [seen EXCEPT !.failed_responses = @ + 1, !.status = "error"]

\* fault: a "timeout" response is counted as a failure
UpdateStats_TimeoutAsFailed(st, status) ==
    IF status = "ok" THEN [st EXCEPT !.successful_responses = @ + 1]
    ELSE [st EXCEPT !.failed_responses = @ + 1]

\* lines 240-251: the global counter that goes with the per-board one.
UpdateStats(st, status) ==
    IF status = "ok" THEN [st EXCEPT !.successful_responses = @ + 1]
    ELSE IF status = "timeout" THEN [st EXCEPT !.timeout_responses = @ + 1]
    ELSE [st EXCEPT !.failed_responses = @ + 1]

\* fault: the client is added when it was not waiting
RemoveWaiting_Toggle(waiting, client_id) ==
    IF client_id \in waiting THEN waiting \ {client_id} ELSE waiting \cup {client_id}

\* lines 254-255: remove the client from the waiting set if it is there.
RemoveWaiting(waiting, client_id) == waiting \ {client_id}

\* _command_completed raises KeyError before its `del` (line 285) when a
\* recorded response is "ok" without the 'file' / 'jitter_us' keys (line 280).
CompletionRaises(responses) ==
    \E c \in DOMAIN responses : responses[c].status = "ok" /\ ~responses[c].has_file

\* _command_completed, lines 265-285: the table after the call.
command_completed(p, command_id) ==
    IF CompletionRaises(p[command_id].responses) THEN p ELSE MapDel(p, {command_id})

\* line 211: the lookup that decides whether the response is dropped.
IsPending(p, command_id) == command_id \in DOMAIN p

\* lines 219-220, 253-263: the table after a response for a pending id.
ResponsePending(p, response) ==
    LET command_data == p[response.id]
        recorded == MapPut(command_data.responses, response.client,
                           [status |-> response.status, has_file |-> response.has_file])
        waiting == RemoveWaiting(command_data.slaves_waiting, response.client)
        p1 == [p EXCEPT ![response.id] =
                  [command_data EXCEPT !.responses = recorded, !.slaves_waiting = waiting]]
    IN  IF waiting = {} THEN command_completed(p1, response.id) ELSE p1

\* fault: a response for an unknown command is counted as a failure
drop_response_counted ==
    /\ stats' = [stats EXCEPT !.failed_responses = @ + 1]
    /\ UNCHANGED <<pending_commands, board_stats, credited>>

\* lines 211-213: a response for an unknown command is logged and dropped.
drop_response == UNCHANGED <<pending_commands, board_stats, stats, credited>>

\* _process_response, lines 204-263, as one step under response_lock.
process_response(response) ==
    IF ~IsPending(pending_commands, response.id)
       THEN drop_response
       ELSE /\ pending_commands' = ResponsePending(pending_commands, response)
            /\ IF response.client \in DOMAIN board_stats
                  THEN /\ board_stats' = [board_stats EXCEPT ![response.client] =
                                             UpdateBoardStat(@, response.status)]
                       /\ stats' = UpdateStats(stats, response.status)
                       /\ credited' = [credited EXCEPT ![<<response.id, response.client>>] = @ + 1]
                  ELSE UNCHANGED <<board_stats, stats, credited>>

\* _on_message, lines 190-202: a payload that does not decode to a JSON object
\* raises inside the try and is only logged.
on_message(frame) ==
    /\ nframes < MaxFrames
    /\ nframes' = nframes + 1
    /\ last_frame' = [kind |-> frame.kind, id |-> frame.id,
                      known |-> frame.id \in DOMAIN pending_commands]
    /\ IF frame.kind = "garbage"
          THEN UNCHANGED <<pending_commands, board_stats, stats, credited>>
          ELSE process_response(frame)
    /\ UNCHANGED <<cfgVars, connected, command_counter, last_poll_time, now, pc, loc,
                   sw_pc, sw_time, given, issued_ok, failed_ids, peerVars, lpc,
                   trigVars>>
    /\ Observe

\* ----------------------------------------- MQTTMasterService: timeout sweep
\* fault: an entry is timed out as soon as its deadline is reached
Expired_AtDeadline(p, current_time) ==
    {id \in DOMAIN p : current_time - p[id].timestamp >= command_timeout}

\* line 115: the entries a pass with this current_time finds timed out.
Expired(p, current_time) ==
    {id \in DOMAIN p : current_time - p[id].timestamp > command_timeout}

\* fault: every configured slave is counted, not only the waiting ones
TimedOutPairs_AllSlaves(p, bs, ex) == ex \X DOMAIN bs

\* lines 119-120: the (entry, slave) pairs a pass counts.
TimedOutPairs(p, bs, ex) ==
    {pr \in ex \X DOMAIN bs : pr[2] \in p[pr[1]].slaves_waiting}

\* lines 121-122
SweepBoardStats(bs, pairs) ==
    [s \in DOMAIN bs |->
        LET n == Cardinality({pr \in pairs : pr[2] = s})
        IN  IF n > 0
               THEN [bs[s] EXCEPT !.timeout_responses = @ + n, !.status = "timeout"]
               ELSE bs[s]]

\* fault: the timed out entries are counted but not removed
SweepDelete_Keep(p, ex) == p

\* lines 127-130
SweepDelete(p, ex) == MapDel(p, ex)

\* _check_timeouts, line 110: current_time = time.time(), read before the lock.
check_timeouts_start ==
    /\ sw_pc = "start"
    /\ sw_time' = now
    /\ sw_pc' = "scan"
    /\ UNCHANGED <<cfgVars, connected, command_counter, pending_commands, stats,
                   board_stats, last_poll_time, now, pc, loc, histVars, peerVars, lpc,
                   trigVars>>
    /\ Observe

\* _check_timeouts, lines 113-130, one critical section; then the checker
\* sleeps (line 100) and starts over.
check_timeouts_scan ==
    /\ sw_pc = "scan"
    /\ LET ex == Expired(pending_commands, sw_time)
           pairs == TimedOutPairs(pending_commands, board_stats, ex)
       IN  /\ board_stats' = SweepBoardStats(board_stats, pairs)
           /\ stats' = [stats EXCEPT !.timeout_responses = @ + Cardinality(pairs)]
           /\ credited' = [k \in DOMAIN credited |->
                             credited[k] + (IF k \in pairs THEN 1 ELSE 0)]
           /\ pending_commands' = SweepDelete(pending_commands, ex)
    /\ sw_pc' = "start"
    /\ UNCHANGED <<cfgVars, connected, command_counter, last_poll_time, now, pc, loc,
                   sw_time, given, issued_ok, failed_ids, nframes, last_frame, peerVars, lpc,
                   trigVars>>
    /\ Observe

\* ------------------------------------------------ MQTTCameraService (peer)
\* Peer time is counted in ticks of 1800 s (session_timeout); the clock starts
\* well after the epoch, where last_capture_time = 0 sits.
PeerInit ==
    /\ last_command_id = 0
    /\ last_capture_status = [status |-> "idle", command_id |-> 0]
    /\ current_session_dir = <<>>
    /\ current_session_date = 0
    /\ last_capture_time = 0
    /\ photos_in_session = 0
    /\ p_clock = PeerStartTime
    /\ p_date = 1
    /\ dirs = {}
    /\ sent = <<>>
    /\ delivered = <<>>

\* AutoCaptureManager.__init__ (lines 456-477) and MasterHelmetSystem.__init__
\* (line 675): nothing runs yet. The pin is pulled up (line 601). The clock
\* is far from the epoch, where last_imu_capture = 0 sits.
LoopInit ==
    /\ running = FALSE
    /\ main_pc = "new"
    /\ timer_running = FALSE
    /\ imu_monitoring = FALSE
    /\ gpio20_monitoring = FALSE
    /\ last_imu_capture = 0
    /\ last_acceleration = NoAcceleration
    /\ lpc = [t \in Threads |-> "off"]
    /\ wake = [t \in Threads |-> 0]
    /\ t_now = TrigStartTime
    /\ imu_loc = [current_time |-> 0, current_acceleration |-> 0]
    /\ last_state = "HIGH"
    /\ current_state = "HIGH"
    /\ line = "HIGH"
    /\ ticks = <<>>
    /\ edges = <<>>
    /\ web_log = <<>>
    /\ snap_pc = "idle"
    /\ snap = InitSnap
    /\ snap_seen = {}
    /\ cap = InitCap
    /\ envelopes = EmptyMap
    /\ imu_log = EmptyMap
    /\ tick_log = <<>>
    /\ photo_count = 0
    /\ session = <<>>
    /\ names = <<>>
    /\ shot = [t \in ConcurrentThreads |-> InitShot]
    /\ WatcherInit
    /\ save = [t \in ConcurrentThreads |-> InitSave]

\* MasterIMUSensor.__init__ (camera/services.py lines 40-64) found the sensor;
\* the helmet is at rest.
TrigInit ==
    /\ LoopInit
    /\ imu_available = TRUE
    /\ imu_data = 0

\* The coordinator and peer specifications are configured with the timer
\* trigger.
Init == MasterInit /\ PeerInit /\ TrigInit /\ enabled = "timer"

\* fault: a change of date does not start a new session
NeedNewSession_NoDate ==
    \/ current_session_dir = <<>>
    \/ p_clock - last_capture_time > SessionTimeout

\* lines 120-124
NeedNewSession ==
    \/ current_session_dir = <<>>
    \/ current_session_date # p_date
    \/ p_clock - last_capture_time > SessionTimeout

\* lines 135-140: the base directory of the day, or the first counter suffix
\* that does not exist when the base exists and the session held more than
\* 100 photos. A directory is <<date, counter>>, counter 0 for the base.
\* fault: the first counter suffix is taken whether it exists or not
FirstFree_First(date, counter) == <<date, counter>>

RECURSIVE FirstFree(_, _)
FirstFree(date, counter) ==
    IF <<date, counter>> \in dirs THEN FirstFree(date, counter + 1) ELSE <<date, counter>>

NewSessionDir ==
    IF <<p_date, 0>> \in dirs /\ photos_in_session > SessionPhotoLimit
       THEN FirstFree(p_date, 1)
       ELSE <<p_date, 0>>

\* fault: a new session keeps the count of the session before it
PhotosAfterResolve_Keep(rolled, n) == n

\* line 146: a new session starts with photos_in_session = 0
PhotosAfterResolve(rolled, n) == IF rolled THEN 0 ELSE n

\* line 199: the duplicate test
IsDuplicate(last_id, command_id) == last_id = command_id

\* fault: the id is not remembered
StoreCommandId_Forget(last_id, command_id) == last_id

\* line 202: the id remembered for the next test
StoreCommandId(last_id, command_id) == command_id

\* fault: every response reports success
Response_AlwaysOk(command_id, status) ==
    [id |-> command_id, client |-> PeerClientId, status |-> "ok",
     photos_in_session |-> photos_in_session']

\* lines 230-241, 252-261, 277-286: the response handed to _send_response
Response(command_id, status) ==
    [id |-> command_id, client |-> PeerClientId, status |-> status,
     photos_in_session |-> photos_in_session']

\* fault: the heartbeat answer reports an empty session
PollResponse_Empty(command_id) ==
    [id |-> command_id, client |-> PeerClientId, status |-> "online",
     current_session |-> <<>>, photos_in_session |-> 0]

\* lines 294-306: the heartbeat answer; current_session is None (here the
\* empty tuple) when there is no session directory.
PollResponse(command_id) ==
    [id |-> command_id, client |-> PeerClientId, status |-> "online",
     current_session |-> current_session_dir, photos_in_session |-> photos_in_session]

\* _handle_poll_command, lines 290-308
handle_poll_command(command) ==
    /\ sent' = Append(sent, PollResponse(command.id))
    /\ delivered' = Append(delivered, [id |-> command.id, type |-> "poll",
                                       session_ok |-> FALSE, camera |-> FALSE,
                                       rolled |-> FALSE, driver_ok |-> FALSE])
    /\ UNCHANGED <<last_command_id, last_capture_status, current_session_dir,
                   current_session_date, last_capture_time, photos_in_session, dirs>>

\* _process_command, lines 188-288, for a capture command. mkdir_ok: whether
\* session_dir.mkdir succeeds (it raises otherwise); photo: what
\* capture_with_filename does ("path", "none" for a falsy result, "raise").
process_capture(command, mkdir_ok, photo) ==
    IF IsDuplicate(last_command_id, command.id)
       THEN /\ last_capture_status' = [status |-> "processing", command_id |-> command.id]
            /\ delivered' = Append(delivered, [id |-> command.id, type |-> "capture",
                                               session_ok |-> FALSE, camera |-> FALSE,
                                       rolled |-> FALSE, driver_ok |-> FALSE])
            /\ UNCHANGED <<last_command_id, current_session_dir, current_session_date,
                           last_capture_time, photos_in_session, dirs, sent>>
       ELSE
         /\ last_command_id' = StoreCommandId(last_command_id, command.id)
         /\ IF NeedNewSession /\ ~mkdir_ok
               THEN \* _get_session_directory raised: the except branch answers
                    /\ last_capture_status' = [status |-> "processing", command_id |-> command.id]
                    /\ delivered' = Append(delivered, [id |-> command.id, type |-> "capture",
                                                       session_ok |-> FALSE, camera |-> FALSE,
                                       rolled |-> FALSE, driver_ok |-> FALSE])
                    /\ UNCHANGED <<current_session_dir, current_session_date,
                                   last_capture_time, photos_in_session, dirs>>
                    /\ sent' = Append(sent, Response(command.id, "error"))
               ELSE
                 LET rolled == NeedNewSession
                     dir == IF rolled THEN NewSessionDir ELSE current_session_dir
                     photos0 == PhotosAfterResolve(rolled, photos_in_session)
                 IN  /\ dirs' = dirs \cup {dir}
                     /\ current_session_dir' = dir
                     /\ current_session_date' = IF rolled THEN p_date ELSE current_session_date
                     /\ delivered' = Append(delivered, [id |-> command.id, type |-> "capture",
                                                        session_ok |-> TRUE, camera |-> TRUE,
                                                        rolled |-> rolled,
                                                        driver_ok |-> photo = "path"])
                     /\ IF photo = "path"
                           THEN /\ last_capture_time' = p_clock
                                /\ photos_in_session' = photos0 + 1
                                /\ last_capture_status' =
                                      [status |-> "success", command_id |-> command.id]
                                /\ sent' = Append(sent, Response(command.id, "ok"))
                           ELSE /\ last_capture_time' = last_capture_time
                                /\ photos_in_session' = photos0
                                /\ last_capture_status' =
                                      [status |-> IF photo = "none" THEN "failed" ELSE "processing",
                                       command_id |-> command.id]
                                /\ sent' = Append(sent, Response(command.id, "error"))

\* _on_message -> _process_command, lines 100-112 and 177-288
process_command(command, mkdir_ok, photo) ==
    /\ Len(delivered) < MaxDeliveries
    /\ IF command.type = "poll"
          THEN handle_poll_command(command)
          ELSE process_capture(command, mkdir_ok, photo)
    /\ UNCHANGED <<p_clock, p_date, masterVars, lpc, snap_seen, trigVars>>

PeerTick ==
    /\ p_clock < MaxPeerTime
    /\ p_clock' = p_clock + 1
    /\ UNCHANGED <<last_command_id, last_capture_status, current_session_dir,
                   current_session_date, last_capture_time, photos_in_session, p_date,
                   dirs, sent, delivered, masterVars, lpc, snap_seen, trigVars>>

Midnight ==
    /\ p_date < MaxDate
    /\ p_date' = p_date + 1
    /\ UNCHANGED <<last_command_id, last_capture_status, current_session_dir,
                   current_session_date, last_capture_time, photos_in_session, p_clock,
                   dirs, sent, delivered, masterVars, lpc, snap_seen, trigVars>>

\* ------------------------------------------------------------ specification
\* One trigger thread's next step in capture_single_photo.
IssueStep(t) ==
    \/ send_capture_command_load(t)
    \/ send_capture_command_store(t)
    \/ send_capture_command_readid(t)
    \/ send_capture_command_insert(t)
    \/ send_capture_command_publish(t)
    \/ send_capture_command_count(t)
    \/ send_poll_message_load(t)
    \/ send_poll_message_store(t)
    \/ send_poll_message_build(t)
    \/ send_poll_message_insert(t)
    \/ send_poll_message_publish(t)

\* The coordinator with one trigger thread running: its steps interleave with
\* the inbound frames, the timeout checker and the clock. A publish can fail
\* at any time (rc_ok); the connection itself is lost only in ConcurrentSpec.
Next ==
    \/ Tick
    \/ on_connect
    \/ IssueStep("timer")
    \/ \E f \in Frames : on_message(f)
    \/ check_timeouts_start
    \/ check_timeouts_scan

Spec == Init /\ [][Next]_vars

\* The Issuer with all trigger threads running capture_single_photo at once.
ConcurrentNext ==
    \/ Tick
    \/ on_connect
    \/ on_disconnect
    \/ \E t \in ConcurrentThreads : IssueStep(t)

\* The timeout checker is a thread that loops forever (lines 96-105), and
\* time passes: both keep taking their steps. A thread that is inside
\* capture_single_photo runs on to its return; whether and when a trigger
\* fires is up to the configuration and the environment.
FairSpec ==
    /\ Spec
    /\ WF_vars(Tick)
    /\ WF_vars(check_timeouts_start)
    /\ WF_vars(check_timeouts_scan)
    /\ WF_vars(pc["timer"] # "idle" /\ IssueStep("timer"))

ConcurrentInit ==
    /\ Init
    /\ slaves = {"p1", "p2"}
    /\ command_timeout = 0

ConcurrentSpec == ConcurrentInit /\ [][ConcurrentNext]_vars

\* One peer handler fed by the bus.
PeerNext ==
    \/ \E c \in Commands, mkdir_ok \in BOOLEAN, photo \in PhotoResults :
          process_command(c, mkdir_ok, photo)
    \/ PeerTick
    \/ Midnight

PeerSpec == ConcurrentInit /\ [][PeerNext]_vars

\* -------------------------------------------- MasterHelmetSystem lifecycle
\* What a step of the main thread, of a trigger loop or of the environment
\* leaves alone in the service.
LoopFrame == UNCHANGED <<masterVars, peerVars, snap_seen, capVars, gpioVars>>

\* A call of capture_single_photo by a trigger loop: when it was made, the
\* clock reading the loop took for it, and whether running was set.
Tick_(source, read) ==
    [source |-> source, at |-> t_now, read |-> read, running |-> running]

\* start(), lines 677-703: start_all_triggers starts the thread of the enabled
\* trigger (lines 506-520, 539-582, 608-632).
start_triggers ==
    /\ main_pc = "new"
    /\ main_pc' = "starting"
    /\ timer_running' = IF enabled = "timer" THEN TRUE ELSE timer_running
    /\ imu_monitoring' = IF enabled = "imu" THEN TRUE ELSE imu_monitoring
    /\ gpio20_monitoring' = IF enabled = "gpio" THEN TRUE ELSE gpio20_monitoring
    /\ lpc' = [lpc EXCEPT ![enabled] = IF enabled = "gpio" THEN "init" ELSE "test"]
    /\ UNCHANGED <<running, enabled, last_imu_capture, last_acceleration, wake, t_now,
                   imu_loc, last_state, current_state, line, ticks, edges, web_log,
                   snap_pc, snap>>
    /\ LoopFrame

\* start(), line 705.
start_running ==
    /\ main_pc = "starting"
    /\ main_pc' = "started"
    /\ running' = TRUE
    /\ UNCHANGED <<enabled, timer_running, imu_monitoring, gpio20_monitoring,
                   last_imu_capture, last_acceleration, lpc, wake, t_now, imu_loc,
                   last_state, current_state, line, ticks, edges, web_log, snap_pc, snap>>
    /\ LoopFrame

\* cleanup(), line 849.
cleanup_flag ==
    /\ main_pc = "started"
    /\ main_pc' = "stopping"
    /\ running' = FALSE
    /\ UNCHANGED <<enabled, timer_running, imu_monitoring, gpio20_monitoring,
                   last_imu_capture, last_acceleration, lpc, wake, t_now, imu_loc,
                   last_state, current_state, line, ticks, edges, web_log, snap_pc, snap>>
    /\ LoopFrame

\* cleanup(), lines 852-872: stop_all_triggers clears the three flags and
\* waits at most 2 s for each thread (lines 525-527, 587-589, 637-639); the
\* rest releases devices. mqtt_service.cleanup stops the network loop before
\* it disconnects, so no callback runs.
cleanup_stop ==
    /\ main_pc = "stopping"
    /\ main_pc' = "stopped"
    /\ timer_running' = FALSE
    /\ imu_monitoring' = FALSE
    /\ gpio20_monitoring' = FALSE
    /\ UNCHANGED <<running, enabled, last_imu_capture, last_acceleration, lpc, wake,
                   t_now, imu_loc, last_state, current_state, line, ticks, edges,
                   web_log, snap_pc, snap>>
    /\ LoopFrame

\* The trigger loops' clock.
TrigTick ==
    /\ t_now < MaxTrigTime
    /\ t_now' = t_now + 1
    /\ UNCHANGED <<running, main_pc, enabled, timer_running, imu_monitoring,
                   gpio20_monitoring, last_imu_capture, last_acceleration, lpc, wake,
                   imu_loc, last_state, current_state, line, ticks, edges, web_log,
                   snap_pc, snap>>
    /\ LoopFrame

\* A trigger loop inside capture_single_photo (lines 513, 571, 621).
loop_call(t) ==
    /\ lpc[t] = "call"
    /\ IssueStep(t)

\* ------------------------------------------------------ timer_capture_loop
\* line 510: the loop condition.
timer_test ==
    /\ lpc["timer"] = "test"
    /\ lpc' = [lpc EXCEPT !["timer"] = IF timer_running /\ running THEN "go" ELSE "done"]
    /\ UNCHANGED trigVars
    /\ LoopFrame

\* lines 512-513: capture_single_photo is called.
timer_capture ==
    /\ lpc["timer"] = "go"
    /\ lpc' = [lpc EXCEPT !["timer"] = "call"]
    /\ ticks' = Append(ticks, Tick_("timer", t_now))
    /\ UNCHANGED <<running, main_pc, enabled, timer_running, imu_monitoring,
                   gpio20_monitoring, last_imu_capture, last_acceleration, wake, t_now,
                   imu_loc, last_state, current_state, line, edges, web_log, snap_pc, snap>>
    /\ LoopFrame

\* line 514: time.sleep(interval) begins.
timer_sleep ==
    /\ lpc["timer"] = "ret"
    /\ lpc' = [lpc EXCEPT !["timer"] = "sleep"]
    /\ wake' = [wake EXCEPT !["timer"] = t_now + TimerInterval]
    /\ UNCHANGED <<running, main_pc, enabled, timer_running, imu_monitoring,
                   gpio20_monitoring, last_imu_capture, last_acceleration, t_now,
                   imu_loc, last_state, current_state, line, ticks, edges, web_log,
                   snap_pc, snap>>
    /\ LoopFrame

\* line 514: the sleep ends, not before the interval has passed.
timer_wake ==
    /\ lpc["timer"] = "sleep"
    /\ t_now >= wake["timer"]
    /\ lpc' = [lpc EXCEPT !["timer"] = "test"]
    /\ UNCHANGED trigVars
    /\ LoopFrame

\* -------------------------------------------------------- imu_monitor_loop
Abs(x) == IF x < 0 THEN -x ELSE x

\* fault: the cooldown is never in force
CooldownActive_Never(current_time, last) == FALSE

\* line 549
CooldownActive(current_time, last) == current_time - last < Cooldown

\* lines 566-569
MovementDetected(current_acceleration, last) ==
    /\ last # NoAcceleration
    /\ Abs(current_acceleration - last) > Threshold

\* lines 546-551: the loop condition, the clock reading and the cooldown test
\* (time.sleep(0.1) is shorter than a unit of the clock).
imu_test ==
    /\ lpc["imu"] = "test"
    /\ IF ~(imu_monitoring /\ running)
          THEN /\ lpc' = [lpc EXCEPT !["imu"] = "done"]
               /\ UNCHANGED imu_loc
          ELSE /\ imu_loc' = [imu_loc EXCEPT !.current_time = t_now]
               /\ lpc' = [lpc EXCEPT !["imu"] =
                            IF CooldownActive(t_now, last_imu_capture)
                               THEN "test" ELSE "sample"]
    /\ UNCHANGED <<running, main_pc, enabled, timer_running, imu_monitoring,
                   gpio20_monitoring, last_imu_capture, last_acceleration, wake, t_now,
                   last_state, current_state, line, ticks, edges, web_log, snap_pc, snap>>
    /\ LoopFrame

\* lines 553-571 and 574-575: one sample. available: imu_data["available"]
\* (read_data raising ends the iteration the same way, lines 577-579);
\* magnitude: the acceleration magnitude computed from it.
imu_sample(available, magnitude) ==
    /\ lpc["imu"] = "sample"
    /\ available = (imu_data # Unavailable)
    /\ magnitude = (IF available THEN imu_data ELSE 0)
    /\ IF ~available
          THEN /\ lpc' = [lpc EXCEPT !["imu"] = "test"]
               /\ UNCHANGED <<imu_loc, last_acceleration, ticks>>
          ELSE /\ imu_loc' = [imu_loc EXCEPT !.current_acceleration = magnitude]
               /\ IF MovementDetected(magnitude, last_acceleration)
                     THEN /\ lpc' = [lpc EXCEPT !["imu"] = "call"]
                          /\ ticks' = Append(ticks, Tick_("imu", imu_loc.current_time))
                          /\ UNCHANGED last_acceleration
                     ELSE /\ lpc' = [lpc EXCEPT !["imu"] = "test"]
                          /\ last_acceleration' = magnitude
                          /\ UNCHANGED ticks
    /\ UNCHANGED <<running, main_pc, enabled, timer_running, imu_monitoring,
                   gpio20_monitoring, last_imu_capture, wake, t_now, last_state,
                   current_state, line, edges, web_log, snap_pc, snap>>
    /\ LoopFrame

\* The helmet moves, or a read of the sensor starts or stops failing
\* (camera/services.py lines 66-136).
sensor_change(reading) ==
    /\ imu_available
    /\ reading # imu_data
    /\ imu_data' = reading
    /\ UNCHANGED <<masterVars, peerVars, lpc, snap_seen, loopVars, imu_available, cap,
                   envelopes, imu_log, tick_log, photo_count, session, names, shot,
                   save, gpioVars>>

\* lines 572-575, after capture_single_photo returned.
imu_store ==
    /\ lpc["imu"] = "ret"
    /\ last_imu_capture' = imu_loc.current_time
    /\ last_acceleration' = imu_loc.current_acceleration
    /\ lpc' = [lpc EXCEPT !["imu"] = "test"]
    /\ UNCHANGED <<running, main_pc, enabled, timer_running, imu_monitoring,
                   gpio20_monitoring, wake, t_now, imu_loc, last_state, current_state,
                   line, ticks, edges, web_log, snap_pc, snap>>
    /\ LoopFrame

\* ----------------------------------------------------- gpio20_monitor_loop
\* line 622: time.sleep(0.5) ends no earlier than this
DebounceWake(t) == t + Debounce

\* The input line falls or rises; its history is kept while it is monitored.
line_fall ==
    /\ gpio20_monitoring
    /\ line = "HIGH"
    /\ Len(edges) < MaxEdges
    /\ line' = "LOW"
    /\ edges' = Append(edges, t_now)
    /\ UNCHANGED <<running, main_pc, enabled, timer_running, imu_monitoring,
                   gpio20_monitoring, last_imu_capture, last_acceleration, lpc, wake,
                   t_now, imu_loc, last_state, current_state, ticks, web_log, snap_pc,
                   snap>>
    /\ LoopFrame

line_rise ==
    /\ gpio20_monitoring
    /\ line = "LOW"
    /\ line' = "HIGH"
    /\ UNCHANGED <<running, main_pc, enabled, timer_running, imu_monitoring,
                   gpio20_monitoring, last_imu_capture, last_acceleration, lpc, wake,
                   t_now, imu_loc, last_state, current_state, ticks, edges, web_log,
                   snap_pc, snap>>
    /\ LoopFrame

\* line 612
gpio_init ==
    /\ lpc["gpio"] = "init"
    /\ last_state' = line
    /\ lpc' = [lpc EXCEPT !["gpio"] = "test"]
    /\ UNCHANGED <<running, main_pc, enabled, timer_running, imu_monitoring,
                   gpio20_monitoring, last_imu_capture, last_acceleration, wake, t_now,
                   imu_loc, current_state, line, ticks, edges, web_log, snap_pc, snap>>
    /\ LoopFrame

\* line 614: the loop condition.
gpio_test ==
    /\ lpc["gpio"] = "test"
    /\ lpc' = [lpc EXCEPT !["gpio"] = IF gpio20_monitoring /\ running THEN "read" ELSE "done"]
    /\ UNCHANGED trigVars
    /\ LoopFrame

\* lines 616-621 and 624-625: one poll of the line (time.sleep(0.05) is
\* shorter than a unit of the clock).
gpio_read ==
    /\ lpc["gpio"] = "read"
    /\ current_state' = line
    /\ IF last_state = "HIGH" /\ line = "LOW"
          THEN /\ lpc' = [lpc EXCEPT !["gpio"] = "call"]
               /\ ticks' = Append(ticks, Tick_("gpio", t_now))
               /\ UNCHANGED last_state
          ELSE /\ lpc' = [lpc EXCEPT !["gpio"] = "test"]
               /\ last_state' = line
               /\ UNCHANGED ticks
    /\ UNCHANGED <<running, main_pc, enabled, timer_running, imu_monitoring,
                   gpio20_monitoring, last_imu_capture, last_acceleration, wake, t_now,
                   imu_loc, line, edges, web_log, snap_pc, snap>>
    /\ LoopFrame

\* line 622: the debounce sleep begins.
gpio_debounce ==
    /\ lpc["gpio"] = "ret"
    /\ lpc' = [lpc EXCEPT !["gpio"] = "sleep"]
    /\ wake' = [wake EXCEPT !["gpio"] = DebounceWake(t_now)]
    /\ UNCHANGED <<running, main_pc, enabled, timer_running, imu_monitoring,
                   gpio20_monitoring, last_imu_capture, last_acceleration, t_now,
                   imu_loc, last_state, current_state, line, ticks, edges, web_log,
                   snap_pc, snap>>
    /\ LoopFrame

\* lines 622-625: the sleep ends, then last_state = current_state.
gpio_wake ==
    /\ lpc["gpio"] = "sleep"
    /\ t_now >= wake["gpio"]
    /\ last_state' = current_state
    /\ lpc' = [lpc EXCEPT !["gpio"] = "test"]
    /\ UNCHANGED <<running, main_pc, enabled, timer_running, imu_monitoring,
                   gpio20_monitoring, last_imu_capture, last_acceleration, wake, t_now,
                   imu_loc, current_state, line, ticks, edges, web_log, snap_pc, snap>>
    /\ LoopFrame

\* ------------------------------------------------------ web command endpoint
\* class MasterHelmetSystem defines no capture_sequence.
HasCaptureSequence == FALSE

\* api_send_command, web_master_server.py lines 118-152, for a request body
\* with these count and interval.
api_send_command(count, interval) ==
    /\ main_pc = "started"
    /\ Len(web_log) < MaxRequests
    /\ web_log' = Append(web_log,
          IF ~HasCaptureSequence
             THEN [count |-> count, interval |-> interval, code |-> 503,
                   body |-> "Master system not ready"]
             ELSE [count |-> count, interval |-> interval, code |-> 200,
                   body |-> "started"])
    /\ UNCHANGED <<running, main_pc, enabled, timer_running, imu_monitoring,
                   gpio20_monitoring, last_imu_capture, last_acceleration, lpc, wake,
                   t_now, imu_loc, last_state, current_state, line, ticks, edges,
                   snap_pc, snap>>
    /\ LoopFrame

\* A peer that has been running for a day: its session is the day's base
\* directory and holds 100 or 101 photos, the last one taken just now; the
\* disk holds the base directory and any of the first counter suffixes, left
\* by earlier runs.
RolloverInit ==
    /\ MasterInit
    /\ slaves = {"p1"}
    /\ command_timeout = 0
    /\ TrigInit
    /\ enabled = "timer"
    /\ last_command_id = 0
    /\ last_capture_status = [status |-> "success", command_id |-> 0]
    /\ current_session_dir = <<1, 0>>
    /\ current_session_date = 1
    /\ last_capture_time = PeerStartTime
    /\ photos_in_session \in {SessionPhotoLimit, SessionPhotoLimit + 1}
    /\ p_clock = PeerStartTime
    /\ p_date = 1
    /\ dirs \in {{<<1, 0>>} \cup d : d \in SUBSET {<<1, 1>>, <<1, 2>>, <<2, 0>>}}
    /\ sent = <<>>
    /\ delivered = <<>>

RolloverSpec == RolloverInit /\ [][PeerNext]_vars

\* ------------------------------------------- trigger loop specifications
\* The master after mqtt_service.start() (line 682) has connected, with one
\* peer configured, and before start_all_triggers.
ConnectedInit ==
    /\ slaves = {"p1"}
    /\ command_timeout = 0
    /\ connected = TRUE
    /\ command_counter = 0
    /\ pending_commands = EmptyMap
    /\ stats = [total_commands |-> 0, successful_responses |-> 0,
                failed_responses |-> 0, timeout_responses |-> 0,
                master_captures |-> 0, master_capture_failures |-> 0]
    /\ board_stats = [s \in slaves |-> InitBoardStat]
    /\ last_poll_time = 0
    /\ now = 0
    /\ pc = [t \in Threads |-> "idle"]
    /\ loc = [t \in Threads |-> InitLoc]
    /\ sw_pc = "start"
    /\ sw_time = 0
    /\ given = <<>>
    /\ credited = [k \in FrameIds \X Clients |-> 0]
    /\ issued_ok = [capture |-> 0, poll |-> 0]
    /\ failed_ids = {}
    /\ nframes = 0
    /\ last_frame = [kind |-> "none", id |-> 0, known |-> FALSE]

TriggerInit == ConnectedInit /\ PeerInit /\ TrigInit

\* The timer trigger from start() to cleanup(), with the web command endpoint.
LifecycleNext ==
    \/ start_triggers
    \/ start_running
    \/ cleanup_flag
    \/ cleanup_stop
    \/ TrigTick
    \/ loop_call("timer")
    \/ timer_test
    \/ timer_capture
    \/ timer_sleep
    \/ timer_wake
    \/ \E count \in Counts, interval \in Intervals : api_send_command(count, interval)

LifecycleInit == TriggerInit /\ enabled = "timer"

LifecycleSpec == LifecycleInit /\ [][LifecycleNext]_vars

\* The timer trigger from start() to cleanup() with the timeout checker,
\* which __init__ starts (line 88) and nothing stops.
ShutdownNext ==
    \/ start_triggers
    \/ start_running
    \/ cleanup_flag
    \/ cleanup_stop
    \/ Tick
    \/ TrigTick
    \/ loop_call("timer")
    \/ timer_test
    \/ timer_capture
    \/ timer_sleep
    \/ timer_wake
    \/ check_timeouts_start
    \/ check_timeouts_scan

ShutdownInit == TriggerInit /\ enabled = "timer"

ShutdownSpec == ShutdownInit /\ [][ShutdownNext]_vars

\* The movement detector.
ImuNext ==
    \/ start_triggers
    \/ start_running
    \/ TrigTick
    \/ loop_call("imu")
    \/ imu_test
    \/ \E available \in BOOLEAN, magnitude \in Magnitudes : imu_sample(available, magnitude)
    \/ imu_store
    \/ \E reading \in Magnitudes \cup {Unavailable} : sensor_change(reading)

ImuInit == TriggerInit /\ enabled = "imu"

ImuSpec == ImuInit /\ [][ImuNext]_vars

\* The line-edge trigger and the input line.
GpioNext ==
    \/ start_triggers
    \/ start_running
    \/ TrigTick
    \/ loop_call("gpio")
    \/ line_fall
    \/ line_rise
    \/ gpio_init
    \/ gpio_test
    \/ gpio_read
    \/ gpio_debounce
    \/ gpio_wake

GpioInit == TriggerInit /\ enabled = "gpio"

\* The loop's thread keeps running and time passes.
GpioSpec ==
    /\ GpioInit /\ [][GpioNext]_vars
    /\ WF_vars(TrigTick)
    /\ WF_vars(loop_call("gpio"))
    /\ WF_vars(gpio_init)
    /\ WF_vars(gpio_test)
    /\ WF_vars(gpio_read)
    /\ WF_vars(gpio_debounce)
    /\ WF_vars(gpio_wake)

\* ------------------------------------------------- master and peer together
\* The command with this id has gone out: its entry is in the table and its
\* publish has returned success.
Published(id) ==
    /\ id \in DOMAIN pending_commands
    /\ id \notin failed_ids
    /\ id <= MaxCmdId
    /\ \A t \in Threads :
          ~(pc[t] \in {"cap_publish", "poll_publish"} /\ loc[t].command_id = id)

\* The frame the master's _on_message decodes from a response of the peer;
\* every response the peer builds carries 'file' and 'jitter_us'
\* (camera/services.py lines 230-241, 252-261, 277-286, 294-306).
FrameOf(response) ==
    [kind |-> "json", id |-> response.id, client |-> response.client,
     status |-> response.status, has_file |-> TRUE]

\* The broker hands a published command to the peer (camera/services.py
\* lines 100-107); the envelope of a poll carries "type": "poll" (master
\* lines 142-147), a capture envelope no type.
peer_receive(mkdir_ok, photo) ==
    \E id \in DOMAIN pending_commands :
       /\ Published(id)
       /\ process_command([id |-> id, type |-> pending_commands[id].type], mkdir_ok, photo)

\* The broker hands the peer's next response to the master (lines 190-197).
peer_response ==
    /\ nframes < Len(sent)
    /\ on_message(FrameOf(sent[nframes + 1]))

\* One master with its timer trigger and one peer on the bus.
HeartbeatNext ==
    \/ Tick
    \/ IssueStep("timer")
    \/ \E mkdir_ok \in BOOLEAN, photo \in PhotoResults : peer_receive(mkdir_ok, photo)
    \/ peer_response

HeartbeatInit == TriggerInit /\ enabled = "timer"

HeartbeatSpec == HeartbeatInit /\ [][HeartbeatNext]_vars

\* ---------------------------------------------------- capture_single_photo
\* One trigger source calling capture_single_photo, each call followed through
\* its statements; no other thread issues commands meanwhile, so
\* send_capture_command and send_poll_message each run as one step.
CapFrame ==
    UNCHANGED <<cfgVars, connected, now, pc, loc, sw_pc, sw_time, board_stats, credited,
                nframes, last_frame, peerVars, lpc, snap_seen, loopVars, imu_available,
                imu_data, shot, save, gpioVars>>

\* lines 772-775: generate_pulse returns False when the pin is not set up
\* or the output raises (lines 424-441); the failure is only logged.
capture_pulse(pulse_success) ==
    /\ cap.pc = "idle"
    /\ Len(tick_log) < MaxCaptures
    /\ cap' = [InitCap EXCEPT !.pc = "send", !.pulse_success = pulse_success]
    /\ UNCHANGED <<command_counter, pending_commands, stats, last_poll_time, given,
                   issued_ok, failed_ids, envelopes, imu_log, tick_log, photo_count,
                   session, names>>
    /\ CapFrame

\* lines 335-341: the master_imu value of the envelope.
EnvelopeImu == IF imu_available THEN imu_data ELSE Unavailable

\* fault: the connected flag is not consulted
IssueRefused_Never(conn) == FALSE

\* lines 316-318: `if not self.connected`
IssueRefused(conn) == ~conn

\* lines 778-782: send_capture_command (lines 314-367). rc_ok: publish
\* returned MQTT_ERR_SUCCESS (otherwise it failed or raised).
capture_send(rc_ok) ==
    /\ cap.pc = "send"
    /\ IF IssueRefused(connected)
          THEN /\ cap' = [cap EXCEPT !.pc = "camera", !.command_id = NoCommand]
               /\ UNCHANGED <<command_counter, pending_commands, stats, given, issued_ok,
                              failed_ids, envelopes>>
          ELSE /\ command_counter < MaxId
               /\ command_counter' = command_counter + 1
               /\ given' = Append(given, command_counter')
               /\ pending_commands' =
                     MapPut(pending_commands, command_counter', NewEntry(now, "capture"))
               /\ envelopes' = MapPut(envelopes, command_counter', EnvelopeImu)
               /\ IF rc_ok
                     THEN /\ stats' = [stats EXCEPT !.total_commands = @ + 1]
                          /\ issued_ok' = [issued_ok EXCEPT !.capture = @ + 1]
                          /\ UNCHANGED failed_ids
                     ELSE /\ failed_ids' = failed_ids \cup {command_counter'}
                          /\ UNCHANGED <<stats, issued_ok>>
               /\ cap' = [cap EXCEPT
                            !.pc = "camera",
                            !.command_id = IF rc_ok THEN command_counter' ELSE NoCommand,
                            !.reads = IF imu_available THEN @ + 1 ELSE @]
    /\ UNCHANGED <<last_poll_time, imu_log, tick_log, photo_count, session, names>>
    /\ CapFrame

\* fault: the master camera is used only for a command that went out after a
\* good pulse
AttemptsCamera_IfIssued(pulse_success, command_id) ==
    pulse_success /\ command_id # NoCommand

\* line 787: `if self.session_dir`, which start() has set (line 691);
\* neither the pulse nor the command id is consulted.
AttemptsCamera(pulse_success, command_id) == TRUE

\* lines 784-805: the master camera. photo: capture returned a path, returned
\* None, or a statement of the try block raised; session_logger counts the
\* photo either way (camera/services.py lines 1025-1054).
capture_camera(photo) ==
    /\ cap.pc = "camera"
    /\ IF AttemptsCamera(cap.pulse_success, cap.command_id)
          THEN /\ cap' = [cap EXCEPT !.pc = "imu", !.attempted = TRUE, !.photo = photo]
               /\ stats' = IF photo = "path"
                              THEN [stats EXCEPT !.master_captures = @ + 1]
                              ELSE [stats EXCEPT !.master_capture_failures = @ + 1]
               /\ names' = Append(names, photo_count)
               /\ session' = Append(session, LogEntry(photo, photo_count))
               /\ photo_count' = photo_count + 1
          ELSE /\ cap' = [cap EXCEPT !.pc = "imu"]
               /\ UNCHANGED <<stats, photo_count, session, names>>
    /\ UNCHANGED <<command_counter, pending_commands, last_poll_time, given, issued_ok,
                   failed_ids, envelopes, imu_log, tick_log>>
    /\ CapFrame

\* lines 807-813: read_data again, and _save_imu_data (lines 713-744) adds
\* the entry to master_imu_data.json.
capture_save_imu ==
    /\ cap.pc = "imu"
    /\ IF cap.command_id # NoCommand /\ imu_available
          THEN /\ imu_log' = MapPut(imu_log, cap.command_id, imu_data)
               /\ cap' = [cap EXCEPT !.pc = "poll", !.reads = @ + 1]
          ELSE /\ cap' = [cap EXCEPT !.pc = "poll"]
               /\ UNCHANGED imu_log
    /\ UNCHANGED <<command_counter, pending_commands, stats, last_poll_time, given,
                   issued_ok, failed_ids, envelopes, tick_log, photo_count, session,
                   names>>
    /\ CapFrame

\* line 831: return command_id, master_photo_success
Returned(command_id, photo) == <<command_id, photo = "path">>

\* lines 829-831: send_poll_message (lines 132-170), then the return.
capture_poll(rc_ok) ==
    /\ cap.pc = "poll"
    /\ IF ~connected \/ now - last_poll_time < PollingInterval
          THEN UNCHANGED <<command_counter, pending_commands, last_poll_time, given,
                           issued_ok, failed_ids>>
          ELSE /\ command_counter < MaxId
               /\ command_counter' = command_counter + 1
               /\ given' = Append(given, command_counter')
               /\ pending_commands' =
                     MapPut(pending_commands, command_counter', NewEntry(now, "poll"))
               /\ IF rc_ok
                     THEN /\ last_poll_time' = now
                          /\ issued_ok' = [issued_ok EXCEPT !.poll = @ + 1]
                          /\ UNCHANGED failed_ids
                     ELSE /\ failed_ids' = failed_ids \cup {command_counter'}
                          /\ UNCHANGED <<last_poll_time, issued_ok>>
    /\ tick_log' = Append(tick_log,
          [pulse_success |-> cap.pulse_success, issued |-> cap.command_id,
           attempted |-> cap.attempted, photo |-> cap.photo, reads |-> cap.reads,
           sensor |-> imu_available, returned |-> Returned(cap.command_id, cap.photo)])
    /\ cap' = InitCap
    /\ UNCHANGED <<stats, envelopes, imu_log, photo_count, session, names>>
    /\ CapFrame

CaptureNext ==
    \/ Tick
    \/ on_connect
    \/ on_disconnect
    \/ \E reading \in Magnitudes \cup {Unavailable} : sensor_change(reading)
    \/ \E pulse_success \in BOOLEAN : capture_pulse(pulse_success)
    \/ \E rc_ok \in BOOLEAN : capture_send(rc_ok)
    \/ \E photo \in PhotoResults : capture_camera(photo)
    \/ capture_save_imu
    \/ \E rc_ok \in BOOLEAN : capture_poll(rc_ok)

\* The started master; its inertial sensor was found at construction or not.
CaptureInit ==
    /\ ConnectedInit
    /\ PeerInit
    /\ LoopInit
    /\ enabled = "timer"
    /\ imu_available \in BOOLEAN
    /\ imu_data = IF imu_available THEN 0 ELSE Unavailable

CaptureSpec == CaptureInit /\ [][CaptureNext]_vars

\* ----------------------------------------------------------- _save_imu_data
\* Two trigger threads in capture_single_photo at the same time, each
\* followed from the return of its send_capture_command to the end of its
\* _save_imu_data. Nothing serialises the two calls.
SaveFrame ==
    UNCHANGED <<cfgVars, connected, last_poll_time, now, pc, loc, sw_pc, sw_time,
                board_stats, credited, failed_ids, nframes, last_frame, peerVars, lpc,
                snap_seen, loopVars, imu_available, imu_data, cap, tick_log, photo_count,
                session, names, shot, gpioVars>>

\* lines 778-782 and 807-811: the thread's command was issued under a fresh
\* id (lines 321-360) with the reading of lines 335-337 in its envelope; the
\* sensor is read again and _save_imu_data is called with the id and that
\* reading.
save_call(t) ==
    /\ save[t].pc = "idle"
    /\ connected /\ imu_available
    /\ command_counter < MaxSaves
    /\ command_counter' = command_counter + 1
    /\ given' = Append(given, command_counter')
    /\ pending_commands' =
          MapPut(pending_commands, command_counter', NewEntry(now, "capture"))
    /\ stats' = [stats EXCEPT !.total_commands = @ + 1]
    /\ issued_ok' = [issued_ok EXCEPT !.capture = @ + 1]
    /\ envelopes' = MapPut(envelopes, command_counter', imu_data)
    /\ save' = [save EXCEPT ![t] = [pc |-> "load", command_id |-> command_counter',
                                     imu_data |-> imu_data, imu_log |-> EmptyMap]]
    /\ UNCHANGED imu_log
    /\ SaveFrame

\* lines 720-726: the log is loaded from master_imu_data.json.
save_load(t) ==
    /\ save[t].pc = "load"
    /\ save' = [save EXCEPT ![t].pc = "dump", ![t].imu_log = imu_log]
    /\ UNCHANGED <<command_counter, given, pending_commands, stats, issued_ok,
                   envelopes, imu_log>>
    /\ SaveFrame

\* lines 728-738: the entry is added to the loaded log and the file is
\* rewritten with the result.
save_dump(t) ==
    /\ save[t].pc = "dump"
    /\ imu_log' = MapPut(save[t].imu_log, save[t].command_id, save[t].imu_data)
    /\ save' = [save EXCEPT ![t] = InitSave]
    /\ UNCHANGED <<command_counter, given, pending_commands, stats, issued_ok,
                   envelopes>>
    /\ SaveFrame

ImuLogNext ==
    \/ \E reading \in Magnitudes \cup {Unavailable} : sensor_change(reading)
    \/ \E t \in ConcurrentThreads : save_call(t)
    \/ \E t \in ConcurrentThreads : save_load(t)
    \/ \E t \in ConcurrentThreads : save_dump(t)

ImuLogInit == TriggerInit /\ enabled = "timer"

ImuLogSpec == ImuLogInit /\ [][ImuLogNext]_vars

\* ------------------------------------------------------ master session log
\* Two trigger threads in the master-camera block of capture_single_photo
\* (lines 784-805) at the same time. JsonLogger (camera/services.py lines
\* 1000-1070) takes no lock.
ShotFrame ==
    UNCHANGED <<cfgVars, connected, command_counter, pending_commands, last_poll_time,
                now, pc, loc, sw_pc, sw_time, board_stats, given, credited, issued_ok,
                failed_ids, nframes, last_frame, peerVars, lpc, snap_seen, loopVars,
                imu_available, imu_data, cap, envelopes, imu_log, tick_log, save,
                gpioVars>>

\* lines 788-791: self.session_logger.photo_count is read for the file name
\* and master_camera.capture runs (camera/services.py lines 909-945). photo:
\* it returned a path, returned None, or the call raised.
shot_capture(t, photo) ==
    /\ shot[t].pc = "idle"
    /\ Len(names) < MaxShots
    /\ names' = Append(names, photo_count)
    /\ shot' = [shot EXCEPT ![t] = [pc |-> "append", photo |-> photo, loaded |-> 0]]
    /\ UNCHANGED <<stats, photo_count, session>>
    /\ ShotFrame

\* lines 793, 798, 803: log_success or log_failure; camera/services.py lines
\* 1027-1039 and 1046-1051: the entry is appended with "index":
\* self.photo_count.
shot_append(t) ==
    /\ shot[t].pc = "append"
    /\ session' = Append(session, LogEntry(shot[t].photo, photo_count))
    /\ shot' = [shot EXCEPT ![t].pc = "load"]
    /\ UNCHANGED <<stats, photo_count, names>>
    /\ ShotFrame

\* camera/services.py lines 1042 and 1053, `self.photo_count += 1`: the
\* attribute is loaded.
shot_load(t) ==
    /\ shot[t].pc = "load"
    /\ shot' = [shot EXCEPT ![t].pc = "store", ![t].loaded = photo_count]
    /\ UNCHANGED <<stats, photo_count, session, names>>
    /\ ShotFrame

\* `self.photo_count += 1`: the sum is stored; _save_log rewrites the file
\* (lines 1064-1069) and capture_single_photo counts the outcome (lines 794,
\* 799, 804).
shot_store(t) ==
    /\ shot[t].pc = "store"
    /\ photo_count' = shot[t].loaded + 1
    /\ stats' = IF shot[t].photo = "path"
                   THEN [stats EXCEPT !.master_captures = @ + 1]
                   ELSE [stats EXCEPT !.master_capture_failures = @ + 1]
    /\ shot' = [shot EXCEPT ![t] = InitShot]
    /\ UNCHANGED <<session, names>>
    /\ ShotFrame

SessionLogNext ==
    \/ \E t \in ConcurrentThreads, photo \in PhotoResults : shot_capture(t, photo)
    \/ \E t \in ConcurrentThreads : shot_append(t)
    \/ \E t \in ConcurrentThreads : shot_load(t)
    \/ \E t \in ConcurrentThreads : shot_store(t)

SessionLogInit == TriggerInit /\ enabled = "timer"

SessionLogSpec == SessionLogInit /\ [][SessionLogNext]_vars

\* ------------------------------------------------------------- GPIOWatcher
\* The peer's standalone watcher (Slave/camera/services.py lines 555-756).
\* The library calls _gpio_interrupt_handler on both edges of the pin (line
\* 598); the handler is followed as one step taken at the edge. No capture
\* callback is registered.
WatcherFrame == UNCHANGED <<masterVars, peerVars, lpc, snap_seen, loopVars, capVars>>

\* lines 636-650: the pin goes HIGH. last_high_time is set, the flag is
\* cleared, an existing timer is cancelled and a new one is started for
\* min_high_duration.
rising_edge ==
    /\ gpio_initialized
    /\ level = "LOW"
    /\ period < MaxPeriods
    /\ level' = "HIGH"
    /\ period' = period + 1
    /\ last_high_time' = w_now
    /\ wifi_scan_triggered' = FALSE
    /\ wifi_timer' = [state |-> "waiting", due |-> w_now + MinHighDuration]
    /\ UNCHANGED <<w_now, gpio_initialized, held, scan_threads, scan_log>>
    /\ WatcherFrame

\* lines 656-663: the pin goes LOW. The timer is cancelled and forgotten.
falling_edge ==
    /\ gpio_initialized
    /\ level = "HIGH"
    /\ level' = "LOW"
    /\ last_high_time' = NoTime
    /\ wifi_timer' = NoTimer
    /\ UNCHANGED <<w_now, wifi_scan_triggered, gpio_initialized, period, held,
                   scan_threads, scan_log>>
    /\ WatcherFrame

\* Time passes; a waiting timer runs out on time.
WatchTick ==
    /\ w_now < MaxWatchTime
    /\ ~(wifi_timer.state = "waiting" /\ w_now >= wifi_timer.due)
    /\ w_now' = w_now + 1
    /\ UNCHANGED <<level, last_high_time, wifi_scan_triggered, wifi_timer,
                   gpio_initialized, period, held, scan_threads, scan_log>>
    /\ WatcherFrame

\* lines 668-673, _trigger_wifi_scan, the timer's function: when the flag
\* is clear and the pin reads HIGH it sets the flag and starts a thread
\* running scan_and_connect_wifi. A timer that runs out with the pin HIGH
\* means the pin stayed HIGH for min_high_duration: a falling edge would
\* have cancelled it.
trigger_wifi_scan ==
    /\ wifi_timer.state = "waiting"
    /\ w_now >= wifi_timer.due
    /\ wifi_timer' = [wifi_timer EXCEPT !.state = "finished"]
    /\ held' = IF level = "HIGH" THEN held \cup {period} ELSE held
    /\ IF ~wifi_scan_triggered /\ gpio_initialized /\ level = "HIGH"
          THEN /\ wifi_scan_triggered' = TRUE
               /\ scan_threads' = scan_threads \cup {period}
          ELSE UNCHANGED <<wifi_scan_triggered, scan_threads>>
    /\ UNCHANGED <<level, w_now, last_high_time, gpio_initialized, period, scan_log>>
    /\ WatcherFrame

\* lines 693-694: `if self.wifi_scan_triggered: return`
ScanSkipped(triggered) == triggered

\* lines 691-723, scan_and_connect_wifi, in the thread started for period k.
\* found: the configured network is in the output of the scan; rc_ok: the
\* connect command returned 0.
scan_and_connect_wifi(k, found, rc_ok) ==
    /\ k \in scan_threads
    /\ scan_threads' = scan_threads \ {k}
    /\ IF ScanSkipped(wifi_scan_triggered)
          THEN UNCHANGED <<wifi_scan_triggered, scan_log>>
          ELSE /\ wifi_scan_triggered' = TRUE
               /\ scan_log' = Append(scan_log,
                     [period |-> k, found |-> found, connected |-> found /\ rc_ok])
    /\ UNCHANGED <<level, w_now, last_high_time, wifi_timer, gpio_initialized, period,
                   held>>
    /\ WatcherFrame

\* lines 725-748: cleanup (registered with atexit, line 569) cancels the
\* timer and removes the edge detection.
watcher_cleanup ==
    /\ gpio_initialized
    /\ wifi_timer' = NoTimer
    /\ gpio_initialized' = FALSE
    /\ UNCHANGED <<level, w_now, last_high_time, wifi_scan_triggered, period, held,
                   scan_threads, scan_log>>
    /\ WatcherFrame

WatcherNext ==
    \/ rising_edge
    \/ falling_edge
    \/ WatchTick
    \/ trigger_wifi_scan
    \/ \E k \in 1..MaxPeriods, found \in BOOLEAN, rc_ok \in BOOLEAN :
          scan_and_connect_wifi(k, found, rc_ok)
    \/ watcher_cleanup

WatcherStart == TriggerInit /\ enabled = "timer"

\* A timer that ran out calls its function, and a started thread runs.
WatcherSpec ==
    /\ WatcherStart
    /\ [][WatcherNext]_vars
    /\ WF_vars(trigger_wifi_scan)
    /\ WF_vars(\E k \in 1..MaxPeriods, found \in BOOLEAN, rc_ok \in BOOLEAN :
                  scan_and_connect_wifi(k, found, rc_ok))

\* ------------------------------------------------------- dashboard status
\* What a step of get_detailed_status leaves alone: it only reads.
SnapFrame ==
    UNCHANGED <<masterVars, peerVars, lpc, running, main_pc, enabled, timer_running,
                imu_monitoring, gpio20_monitoring, last_imu_capture, last_acceleration,
                wake, t_now, imu_loc, last_state, current_state, line, ticks, edges,
                web_log, capVars, gpioVars>>

\* api_master_statistics (web_master_server.py lines 154-166) calls
\* get_detailed_status, which takes no lock; line 380: self.stats.copy().
get_detailed_status_stats ==
    /\ snap_pc = "idle"
    /\ snap' = [InitSnap EXCEPT !.global_stats = stats]
    /\ snap_pc' = "boards"
    /\ snap_seen' = {StatusView}
    /\ SnapFrame

\* line 381: self.board_stats.copy()
get_detailed_status_boards ==
    /\ snap_pc = "boards"
    /\ snap' = [snap EXCEPT !.board_stats = board_stats]
    /\ snap_pc' = "pending"
    /\ UNCHANGED snap_seen
    /\ SnapFrame

\* lines 382-385: len(self.pending_commands); the dictionary is complete.
get_detailed_status_pending ==
    /\ snap_pc = "pending"
    /\ snap' = [snap EXCEPT !.pending_commands = Cardinality(DOMAIN pending_commands)]
    /\ snap_pc' = "done"
    /\ UNCHANGED snap_seen
    /\ SnapFrame

\* web_master_server.py line 164: the answer is sent.
api_master_statistics ==
    /\ snap_pc = "done"
    /\ snap' = InitSnap
    /\ snap_pc' = "idle"
    /\ snap_seen' = {}
    /\ SnapFrame

\* The issuer and the response handler at work while the dashboard asks for
\* the status.
SnapshotNext ==
    \/ Tick
    \/ IssueStep("timer")
    \/ \E f \in Frames : on_message(f)
    \/ get_detailed_status_stats
    \/ get_detailed_status_boards
    \/ get_detailed_status_pending
    \/ api_master_statistics

SnapshotInit == TriggerInit /\ enabled = "timer"

SnapshotSpec == SnapshotInit /\ [][SnapshotNext]_vars

\* ------------------------------------------------------------------ claims
Range(seq) == {seq[i] : i \in 1..Len(seq)}

\* C1: for every (command id, peer) pair the increments made to the peer's
\* successful + failed + timeout counters number at most one.
C1_AtMostOneCreditPerPair ==
    \A k \in DOMAIN credited : credited[k] <= 1

\* C2: the ids handed out to commands start at 1 and are strictly increasing
\* in the order they are handed out, so no id is given to two commands.
C2_IdsStrictlyIncreasing ==
    /\ Len(given) > 0 => given[1] = 1
    /\ \A i, j \in 1..Len(given) : i < j => given[i] < given[j]

\* C3: every pending entry's waiting set is a subset of the configured peers.
C3_WaitingSubsetOfPeers ==
    \A id \in DOMAIN pending_commands : pending_commands[id].slaves_waiting \subseteq slaves

\* C3 witness: an entry that is still waiting has recorded a response from a
\* client that is not a configured peer.
C3_Witness ==
    \E id \in DOMAIN pending_commands :
        /\ pending_commands[id].slaves_waiting # {}
        /\ \E c \in DOMAIN pending_commands[id].responses : c \notin slaves

\* C4: total_commands equals the number of Issues (capture and poll) whose
\* publish succeeded; that number only grows, so total_commands never decreases.
C4_TotalCommandsCountsIssues ==
    stats.total_commands = issued_ok.capture + issued_ok.poll

\* The capture commands delivered to the peer, in order.
IsCapture(d) == d.type = "capture"
Captures == SelectSeq(delivered, IsCapture)

CameraCalls(id) ==
    Cardinality({i \in 1..Len(Captures) : Captures[i].id = id /\ Captures[i].camera})

Deliveries(id) ==
    Cardinality({i \in 1..Len(Captures) : Captures[i].id = id})

\* C5 as claimed: a command id delivered twice, back to back or with other
\* commands in between, has the camera driver called exactly once for it.
C5_OneCapturePerDeliveredId ==
    \A id \in 1..MaxCmdId : Deliveries(id) >= 2 => CameraCalls(id) = 1

\* C5 amended: of two deliveries of the same id with no other capture command
\* between them, the second never calls the camera driver; a delivery that does
\* not repeat the id before it calls the driver once, unless resolving the
\* session directory failed.
C5_ConsecutiveDuplicateSuppressed ==
    \A i \in 1..Len(Captures) :
        IF i > 1 /\ Captures[i - 1].id = Captures[i].id
           THEN ~Captures[i].camera
           ELSE Captures[i].camera = Captures[i].session_ok

\* C5 witness: an id delivered twice in a row, captured on the first delivery.
C5_Witness ==
    \E i \in 2..Len(Captures) :
        /\ Captures[i - 1].id = Captures[i].id
        /\ Captures[i - 1].camera
        /\ CameraCalls(Captures[i].id) = 1

\* A step of the timeout checker's critical section.
ScanStep == sw_pc = "scan" /\ sw_pc' = "start"

\* A step that processes an inbound frame.
FrameStep == nframes' = nframes + 1

\* The entries whose deadline lies before the start of the running pass.
PastDeadline ==
    {id \in DOMAIN pending_commands :
        sw_time > pending_commands[id].timestamp + command_timeout}

\* C6: an entry whose deadline the clock can pass (the clock stops at MaxTime)
\* is eventually deleted; an entry leaves the table only with the response
\* that empties its waiting set or in a pass of the checker that started after
\* its deadline; and no entry whose deadline lies before the start of a pass
\* is in the table after that pass.
C6_EntriesEventuallyDeleted ==
    /\ \A id \in FrameIds :
          (/\ id \in DOMAIN pending_commands
           /\ pending_commands[id].timestamp + command_timeout < MaxTime)
             ~> (id \notin DOMAIN pending_commands)
    /\ [][\A id \in DOMAIN pending_commands :
             id \notin DOMAIN pending_commands' =>
                \/ ScanStep /\ id \in PastDeadline
                \/ /\ FrameStep
                   /\ last_frame'.id = id
                   /\ pending_commands[id].slaves_waiting \subseteq Clients
                   /\ Cardinality(pending_commands[id].slaves_waiting) <= 1]_vars
    /\ [][ScanStep => PastDeadline \cap DOMAIN pending_commands' = {}]_vars

\* C6 witness: an entry was inserted, nobody answered, and a pass removed it.
C6_Witness ==
    /\ command_counter > 0
    /\ pending_commands = EmptyMap
    /\ nframes = 0
    /\ stats.timeout_responses > 0

\* C7: a pass of the checker, in its one critical section, adds to each peer's
\* timeout_responses the number of timed out entries that still wait for it
\* and sets that peer's status to 'timeout', leaves every other peer's cell as
\* it was, adds the number of such (entry, peer) pairs to the global
\* timeout_responses, and deletes exactly the timed out entries.
C7_SweepCountsWaitingPeers ==
    [][ScanStep =>
          LET ex == {id \in DOMAIN pending_commands :
                        sw_time - pending_commands[id].timestamp > command_timeout}
              due(s) == {id \in ex : s \in pending_commands[id].slaves_waiting}
              pairs == {pr \in ex \X slaves : pr[1] \in due(pr[2])}
          IN  /\ \A s \in slaves :
                    IF due(s) = {}
                       THEN board_stats'[s] = board_stats[s]
                       ELSE board_stats'[s] =
                               [board_stats[s] EXCEPT
                                   !.timeout_responses = @ + Cardinality(due(s)),
                                   !.status = "timeout"]
              /\ stats' = [stats EXCEPT !.timeout_responses = @ + Cardinality(pairs)]
              /\ DOMAIN pending_commands' = DOMAIN pending_commands \ ex
              /\ \A id \in DOMAIN pending_commands' :
                    pending_commands'[id] = pending_commands[id]]_vars

\* C7 witness: of two configured peers one answered 'ok' and the other was
\* timed out by a pass, which removed the entry.
C7_Witness ==
    /\ slaves = {"p1", "p2"}
    /\ pending_commands = EmptyMap
    /\ board_stats["p1"].successful_responses = 1
    /\ board_stats["p1"].timeout_responses = 0
    /\ board_stats["p1"].status = "online"
    /\ board_stats["p2"].response_count = 0
    /\ board_stats["p2"].timeout_responses = 1
    /\ board_stats["p2"].status = "timeout"
    /\ stats.timeout_responses = 1

\* C8: the response that empties an entry's waiting set removes the entry
\* from the table in the same step.
C8_LastResponseClosesEntry ==
    [][FrameStep =>
          \A id \in DOMAIN pending_commands \cap DOMAIN pending_commands' :
              pending_commands[id].slaves_waiting # {} =>
                 pending_commands'[id].slaves_waiting # {}]_vars

\* C9: a frame that does not parse, or whose id is not in the table when it
\* arrives, changes neither the table nor any peer's cell nor the global
\* counters.
C9_UnknownFrameChangesNothing ==
    [][FrameStep /\ (last_frame'.kind = "garbage"
                       \/ last_frame'.id \notin DOMAIN pending_commands)
          => UNCHANGED <<pending_commands, board_stats, stats>>]_vars

\* C9 witness: the last frame named an id that had been issued and was no
\* longer in the table when the frame arrived.
C9_Witness ==
    /\ last_frame.kind = "json"
    /\ ~last_frame.known
    /\ last_frame.id \in Range(given)
    /\ stats.successful_responses + stats.timeout_responses > 0

\* C10: no id whose publish failed has an entry in the table.
C10_FailedIssueLeavesNoEntry ==
    \A id \in failed_ids : id \notin DOMAIN pending_commands

\* C11: at most one trigger thread is inside capture_single_photo at any
\* moment.
C11_OneTickAtATime ==
    Cardinality({t \in Threads : pc[t] # "idle"}) <= 1

\* A poll has been issued: it sits in the table or its publish succeeded.
PollIssued ==
    \/ issued_ok.poll > 0
    \/ \E id \in DOMAIN pending_commands : pending_commands[id].type = "poll"

\* C15: once the bus is connected and a polling interval has passed since the
\* last poll, a poll is issued, whether or not a capture trigger fires (the
\* model hands out ids up to MaxId only).
C15_PollIssuedEveryInterval ==
    (connected /\ now - last_poll_time >= PollingInterval)
        ~> (PollIssued \/ command_counter >= MaxId)

\* C17: with no configured peer, the table holds no entry for the id when
\* send_capture_command returns it.
C17_NoPeersCompletesAtOnce ==
    [][\A t \in Threads :
          (slaves = {} /\ pc[t] = "cap_count" /\ pc'[t] # "cap_count")
             => loc[t].command_id \notin DOMAIN pending_commands']_vars

SinceRollover ==
    LET rolls == {i \in 1..Len(delivered) : delivered[i].rolled}
        from == IF rolls = {} THEN 1
                ELSE CHOOSE i \in rolls : \A j \in rolls : j <= i
    IN  from..Len(delivered)

\* C14: photos_in_session is the number of deliveries since the last session
\* rollover for which the camera driver returned a photo.
C14_PhotosCountedSinceRollover ==
    photos_in_session = Cardinality({i \in SinceRollover : delivered[i].driver_ok})

\* C14 witness: a second session holds one photo after a first session that
\* held one, and a capture of the second session failed.
C14_Witness ==
    /\ photos_in_session = 1
    /\ Cardinality({i \in 1..Len(delivered) : delivered[i].rolled}) = 2
    /\ Cardinality({i \in 1..Len(delivered) : delivered[i].driver_ok}) = 2
    /\ \E i \in SinceRollover : delivered[i].camera /\ ~delivered[i].driver_ok

\* The calls of capture_single_photo a trigger loop made, in order.
TicksOf(source) == SelectSeq(ticks, LAMBDA k : k.source = source)

TwoCloseEdges ==
    /\ Len(edges) = 2
    /\ edges[2] - edges[1] < Debounce

\* The line-edge loop is running: started, past its first test of running,
\* and not told to stop.
GpioLoopLive == running /\ gpio20_monitoring /\ lpc["gpio"] \notin {"off", "done"}

\* C13 as stated: while the line-edge loop runs, two falling edges less than
\* 500 ms apart lead to exactly one line-edge tick.
C13_CloseEdgesGiveExactlyOneTick ==
    (TwoCloseEdges /\ GpioLoopLive) ~> (Len(TicksOf("gpio")) = 1)

\* The part of C13 that the polling loop does keep: two falling edges less
\* than 500 ms apart produce at most one line-edge tick, and no two line-edge
\* ticks are less than 500 ms apart.
CloseEdgesGiveAtMostOneTick ==
    LET tr == TicksOf("gpio")
    IN  /\ TwoCloseEdges => Len(tr) <= 1
        /\ \A i \in 1..(Len(tr) - 1) : tr[i + 1].at - tr[i].at >= Debounce

\* C16: every web command request with count >= 1 is answered "started".
C16_SequenceStarted ==
    \A i \in 1..Len(web_log) :
        web_log[i].count >= 1 => web_log[i].code = 200 /\ web_log[i].body = "started"

\* C19: no trigger loop calls capture_single_photo after cleanup cleared
\* running.
C19_NoTickAfterShutdown ==
    \A i \in 1..Len(ticks) : ticks[i].running

\* C20: the status a get_detailed_status call returns is the status the
\* service had at one moment during the call.
C20_SnapshotAtomic ==
    snap_pc = "done" =>
        <<snap.global_stats, snap.board_stats, snap.pending_commands>> \in snap_seen

\* A response for a pending id from a client that the entry is not waiting
\* for.
Spurious(f) ==
    /\ f.kind = "json"
    /\ f.id \in DOMAIN pending_commands
    /\ f.client \notin pending_commands[f.id].slaves_waiting

\* C21: a response for a pending id whose client is not in the entry's
\* waiting set changes no per-peer statistics and no global counter.
C21_SpuriousResponseLeavesStats ==
    [][\A f \in Frames :
          (Spurious(f) /\ on_message(f)) => (board_stats' = board_stats /\ stats' = stats)]_vars

\* A first response from a peer the pending entry is waiting for.
FirstResponse(f) ==
    /\ f.kind = "json"
    /\ f.id \in DOMAIN pending_commands
    /\ f.client \in pending_commands[f.id].slaves_waiting

\* The counter a response status belongs to, and the peer status it sets.
CounterOf(status) ==
    IF status = "ok" THEN "successful_responses"
    ELSE IF status = "timeout" THEN "timeout_responses"
    ELSE "failed_responses"

StatusOf(status) ==
    IF status = "ok" THEN "online" ELSE IF status = "timeout" THEN "timeout" ELSE "error"

OutcomeCounters == {"successful_responses", "failed_responses", "timeout_responses"}

\* C22: a first response from a waiting peer sets the peer's status after the
\* response status and adds 1 to the matching per-peer counter and to the
\* matching global counter, and to no other outcome counter of any peer.
C22_FirstResponseCounted ==
    [][\A f \in Frames :
          (FirstResponse(f) /\ on_message(f)) =>
             /\ board_stats'[f.client].status = StatusOf(f.status)
             /\ \A k \in OutcomeCounters :
                   /\ board_stats'[f.client][k] =
                         board_stats[f.client][k] + (IF k = CounterOf(f.status) THEN 1 ELSE 0)
                   /\ stats'[k] = stats[k] + (IF k = CounterOf(f.status) THEN 1 ELSE 0)
             /\ \A s \in slaves \ {f.client} : board_stats'[s] = board_stats[s]]_vars

\* C22 witness: one peer answered "error" and another "timeout" to commands
\* that waited for them.
C22_Witness ==
    /\ nframes = 2
    /\ stats.failed_responses = 1
    /\ stats.timeout_responses = 1
    /\ \E s \in slaves : board_stats[s].status = "error" /\ board_stats[s].failed_responses = 1
    /\ \E s \in slaves : board_stats[s].status = "timeout" /\ board_stats[s].timeout_responses = 1
    /\ sw_pc = "start" /\ sw_time = 0

\* The peer handles a delivery of command c.
Handles(c) ==
    \E mkdir_ok \in BOOLEAN, photo \in PhotoResults : process_command(c, mkdir_ok, photo)

\* C23: a capture command whose id equals the last seen id publishes no
\* response and leaves the session directory, photos_in_session,
\* last_capture_time and last_capture_status as they were.
C23_DuplicateIgnored ==
    [][\A c \in Commands :
          (c.type = "capture" /\ IsDuplicate(last_command_id, c.id) /\ Handles(c)) =>
             /\ sent' = sent
             /\ UNCHANGED <<current_session_dir, photos_in_session, last_capture_time,
                            last_capture_status>>]_vars

\* C24: a capture command that is not a duplicate produces exactly one
\* response with the command's id and the peer's client id; the status is
\* "ok", with photos_in_session one more than the session held, exactly when
\* the session directory was resolved and the camera driver returned a file,
\* and "error" otherwise.
C24_OneResponsePerCapture ==
    [][\A c \in Commands, mkdir_ok \in BOOLEAN, photo \in PhotoResults :
          (/\ c.type = "capture"
           /\ ~IsDuplicate(last_command_id, c.id)
           /\ process_command(c, mkdir_ok, photo)) =>
             LET resolved == ~NeedNewSession \/ mkdir_ok
                 file == resolved /\ photo = "path"
                 r == sent'[Len(sent')]
             IN  /\ Len(sent') = Len(sent) + 1
                 /\ SubSeq(sent', 1, Len(sent)) = sent
                 /\ r.id = c.id
                 /\ r.client = PeerClientId
                 /\ r.status = IF file THEN "ok" ELSE "error"
                 /\ file => photos_in_session' =
                               (IF NeedNewSession THEN 0 ELSE photos_in_session) + 1]_vars

\* C24 witness: three captures were answered, one after the camera driver
\* returned a file, one after it returned none, one after mkdir failed.
C24_Witness ==
    /\ Len(sent) = 3
    /\ Len(delivered) = 3
    /\ \E i, j, k \in 1..3 :
          /\ delivered[i].driver_ok /\ sent[i].status = "ok"
          /\ delivered[j].camera /\ ~delivered[j].driver_ok /\ sent[j].status = "error"
          /\ delivered[k].type = "capture" /\ ~delivered[k].camera
          /\ sent[k].status = "error"

\* The rollover condition as the claim words it: no current session, another
\* calendar date, or the last successful capture longer ago than the timeout.
RolloverDue ==
    \/ current_session_dir = <<>>
    \/ current_session_date # p_date
    \/ p_clock - last_capture_time > SessionTimeout

\* A capture attempt: the delivery of a capture command that is not a
\* duplicate, with these outcomes of mkdir and of the camera driver.
Attempt(c, mkdir_ok, photo) ==
    /\ c.type = "capture"
    /\ ~IsDuplicate(last_command_id, c.id)
    /\ process_command(c, mkdir_ok, photo)

\* What an attempt does to the session when it rolls and when it does not.
Rolls(photo) ==
    /\ current_session_date' = p_date
    /\ photos_in_session' = IF photo = "path" THEN 1 ELSE 0

Keeps(photo) ==
    /\ current_session_dir' = current_session_dir
    /\ current_session_date' = current_session_date
    /\ photos_in_session' = photos_in_session + (IF photo = "path" THEN 1 ELSE 0)

\* C25 as stated: every capture attempt rolls a new session exactly when the
\* rollover condition holds, and keeps the session otherwise.
C25_RollsIffDue ==
    [][\A c \in Commands, mkdir_ok \in BOOLEAN, photo \in PhotoResults :
          Attempt(c, mkdir_ok, photo) =>
             IF RolloverDue THEN Rolls(photo) ELSE Keeps(photo)]_vars

\* C25 amended: the same, except that an attempt whose session directory
\* cannot be created keeps the session and photos_in_session as they were.
C25_RollsIffDueAndCreated ==
    [][\A c \in Commands, mkdir_ok \in BOOLEAN, photo \in PhotoResults :
          Attempt(c, mkdir_ok, photo) =>
             IF RolloverDue /\ mkdir_ok THEN Rolls(photo)
             ELSE IF RolloverDue
                     THEN UNCHANGED <<current_session_dir, current_session_date,
                                      photos_in_session>>
             ELSE Keeps(photo)]_vars

\* C25 witness: a session was started, kept for the next capture, and then
\* replaced because the date changed.
C25_Witness ==
    /\ Len(delivered) = 3
    /\ delivered[1].rolled
    /\ delivered[2].camera /\ ~delivered[2].rolled
    /\ delivered[3].rolled
    /\ current_session_date = 2
    /\ p_clock = PeerStartTime

\* The base directory of the peer's current date.
BasePath == <<p_date, 0>>

\* C26: an attempt that rolls a session takes, when the base path exists and
\* the ending session held more than 100 photos, the base path with the
\* smallest counter suffix that does not exist, a directory that was not
\* there before; when the ending session held 100 photos or fewer it takes
\* the base path, existing or not.
C26_RolloverDirectory ==
    [][\A c \in Commands, photo \in PhotoResults :
          (RolloverDue /\ Attempt(c, TRUE, photo)) =>
             IF BasePath \in dirs /\ photos_in_session > SessionPhotoLimit
                THEN /\ current_session_dir'[1] = p_date
                     /\ current_session_dir'[2] >= 1
                     /\ current_session_dir' \notin dirs
                     /\ \A n \in 1..(current_session_dir'[2] - 1) : <<p_date, n>> \in dirs
                ELSE current_session_dir' = BasePath]_vars

\* C26 witness: a session of 101 photos ended while the base path and the
\* suffix _001 existed, so the next session went to _002; after a date change
\* that session, of at most 100 photos, ended into the new date's base path.
C26_Witness ==
    /\ Len(delivered) = 2
    /\ delivered[1].rolled
    /\ delivered[2].rolled
    /\ {<<1, 0>>, <<1, 1>>, <<1, 2>>} \subseteq dirs
    /\ current_session_dir = <<2, 0>>
    /\ photos_in_session <= 1

\* C29: with the timer source enabled, once start() has set running and until
\* cleanup() begins, the timer loop has not left its while loop, whatever the
\* interleaving of the new thread with the rest of start().
C29_TimerLoopSurvivesStart ==
    (enabled = "timer" /\ main_pc = "started") => lpc["timer"] # "done"

\* An iteration of the running movement loop that falls into the cooldown
\* (lines 546-551).
CooldownIteration ==
    /\ lpc["imu"] = "test"
    /\ imu_monitoring /\ running
    /\ CooldownActive(t_now, last_imu_capture)
    /\ imu_test

\* Outside the cooldown the loop compares the sample it reads with the
\* sample of its previous read: the first one only seeds, a tick starts
\* exactly when the change is above the threshold, and the sample becomes
\* last_acceleration either at once or when the tick's call has returned.
SampleOutsideCooldown ==
    [][/\ \A available \in BOOLEAN, magnitude \in Magnitudes :
             (available /\ imu_sample(available, magnitude)) =>
                /\ (ticks' # ticks) <=>
                      (/\ last_acceleration # NoAcceleration
                       /\ Abs(magnitude - last_acceleration) > Threshold)
                /\ ticks' = ticks => last_acceleration' = magnitude
                /\ ticks' # ticks => imu_loc'.current_acceleration = magnitude
       /\ (lpc["imu"] = "ret" /\ imu_store) =>
             last_acceleration' = imu_loc.current_acceleration]_vars

\* C27: every sample the sensor has available becomes last_magnitude, in the
\* cooldown too, where it starts no tick, so that each sample is compared
\* with the one immediately before it.
C27_EverySampleBecomesLast ==
    [][(CooldownIteration /\ imu_data # Unavailable) =>
          (last_acceleration' = imu_data /\ ticks' = ticks)]_vars

\* C28: every call of capture_single_photo that returned has used the
\* master camera, whether its pulse failed and whether its command was
\* issued, and it returned the id of the command it issued, whatever the
\* master camera did; a call that is past the camera step has used it.
C28_StepsIndependent ==
    /\ \A i \in 1..Len(tick_log) :
          /\ tick_log[i].attempted
          /\ tick_log[i].returned[1] = tick_log[i].issued
          /\ tick_log[i].issued # NoCommand =>
                /\ tick_log[i].issued \in Range(given)
                /\ tick_log[i].issued \notin failed_ids
    /\ cap.pc \in {"imu", "poll"} => cap.attempted

\* C28 witness: one call returned after a failed pulse and a refused command,
\* with the master camera used; another returned the id of its issued command
\* although the master camera raised.
C28_Witness ==
    /\ Len(tick_log) = 2
    /\ ~tick_log[1].pulse_success
    /\ tick_log[1].issued = NoCommand
    /\ tick_log[1].attempted
    /\ tick_log[2].issued = 1
    /\ tick_log[2].photo = "raise"
    /\ tick_log[2].returned = <<1, FALSE>>
    /\ stats.total_commands = 1
    /\ stats.master_capture_failures >= 1

\* C30: a call of capture_single_photo that issued a command with the sensor
\* present has read the sensor exactly once, and the entry of the IMU log
\* under a command id is the snapshot in that command's envelope.
C30_OneSnapshotPerTick ==
    /\ \A i \in 1..Len(tick_log) :
          (tick_log[i].issued # NoCommand /\ tick_log[i].sensor) => tick_log[i].reads = 1
    /\ \A id \in DOMAIN imu_log :
          id \in DOMAIN envelopes /\ imu_log[id] = envelopes[id]

\* C31: send_capture_command called while the bus is not connected returns
\* no command id and leaves the command counter, the Pending Table, the
\* per-peer statistics and stats.total_commands as they were; the calling
\* capture_single_photo goes on to its next statement, and when it returns
\* it returns no command id.
C31_RefusedIssueChangesNothing ==
    [][/\ \A rc_ok \in BOOLEAN :
             (~connected /\ capture_send(rc_ok)) =>
                /\ cap'.command_id = NoCommand
                /\ cap'.pc = "camera"
                /\ UNCHANGED <<command_counter, pending_commands, board_stats>>
                /\ stats'.total_commands = stats.total_commands
       /\ \A rc_ok \in BOOLEAN :
             (cap.command_id = NoCommand /\ capture_poll(rc_ok)) =>
                /\ Len(tick_log') = Len(tick_log) + 1
                /\ tick_log'[Len(tick_log')].returned[1] = NoCommand]_vars

\* C31 witness: a call made while disconnected has returned, without a
\* command id, and no command id was ever handed out.
C31_Witness ==
    /\ Len(tick_log) = 1
    /\ tick_log[1].issued = NoCommand
    /\ tick_log[1].returned[1] = NoCommand
    /\ command_counter = 0
    /\ pending_commands = EmptyMap
    /\ ~connected

\* C32: a poll command makes the peer publish exactly one response, with
\* status 'online', the command's id, the current session and
\* photos_in_session; the camera is not used and last_command_id, the
\* session directory, photos_in_session and last_capture_status stay as
\* they were.
C32_PollAnsweredOnline ==
    [][\A c \in Commands :
          (c.type = "poll" /\ Handles(c)) =>
             /\ Len(sent') = Len(sent) + 1
             /\ SubSeq(sent', 1, Len(sent)) = sent
             /\ sent'[Len(sent')].id = c.id
             /\ sent'[Len(sent')].client = PeerClientId
             /\ sent'[Len(sent')].status = "online"
             /\ sent'[Len(sent')].current_session = current_session_dir
             /\ sent'[Len(sent')].photos_in_session = photos_in_session
             /\ ~delivered'[Len(delivered')].camera
             /\ UNCHANGED <<last_command_id, current_session_dir, photos_in_session,
                            last_capture_status>>]_vars

\* C32 witness: after a successful capture a poll was answered 'online' with
\* the session of that capture and one photo.
C32_Witness ==
    /\ Len(delivered) = 2
    /\ delivered[1].driver_ok
    /\ delivered[2].type = "poll"
    /\ sent[2].status = "online"
    /\ sent[2].photos_in_session = 1
    /\ sent[2].current_session = current_session_dir
    /\ current_session_dir # <<>>
    /\ last_command_id = delivered[1].id

\* C33: an entry written to the master's IMU log is in every later state of
\* the log, with the reading it was written with, also when two trigger
\* threads save at the same time.
C33_ImuLogAppendOnly ==
    [][\A id \in DOMAIN imu_log :
          id \in DOMAIN imu_log' /\ imu_log'[id] = imu_log[id]]_vars

\* A response of the only peer the entry still waits for.
LastResponse(f) ==
    /\ FirstResponse(f)
    /\ pending_commands[f.id].slaves_waiting = {f.client}

\* C34: a response of the last waiting peer that lacks the optional fields
\* is processed like a complete one: the peer's statistics are updated and
\* the entry is deleted from the Pending Table.
C34_IncompleteResponseCloses ==
    [][\A f \in Frames :
          (LastResponse(f) /\ ~f.has_file /\ on_message(f)) =>
             /\ board_stats'[f.client] = UpdateBoardStat(board_stats[f.client], f.status)
             /\ stats' = UpdateStats(stats, f.status)
             /\ f.id \notin DOMAIN pending_commands']_vars

\* C35: while cleanup() is under way, after it has cleared running, no
\* peer's timeout_responses and not the global timeout_responses is
\* incremented for the entries still in the Pending Table.
C35_NoTimeoutCountedInCleanup ==
    [][main_pc = "stopping" =>
          /\ stats'.timeout_responses = stats.timeout_responses
          /\ \A s \in slaves :
                board_stats'[s].timeout_responses = board_stats[s].timeout_responses]_vars

\* The peer's answer to a heartbeat poll arrives while the poll is pending
\* and waits for that peer.
PollAnswerArrives ==
    /\ nframes < Len(sent)
    /\ sent[nframes + 1].status = "online"
    /\ FirstResponse(FrameOf(sent[nframes + 1]))
    /\ pending_commands[sent[nframes + 1].id].type = "poll"
    /\ peer_response

\* C36: when the answer of a configured peer to a pending heartbeat poll has
\* been processed, the master holds the peer as 'online' and the peer's
\* failed_responses is what it was.
C36_PollAnswerKeepsPeerOnline ==
    [][PollAnswerArrives =>
          /\ board_stats'[PeerClientId].status = "online"
          /\ board_stats'[PeerClientId].failed_responses =
                board_stats[PeerClientId].failed_responses]_vars

\* C37: whenever send_poll_message inserts its Pending entry, the key it
\* inserts under is the id it put into the poll envelope, and no entry is
\* in the table under that key, whatever other trigger threads are doing in
\* send_capture_command.
C37_PollKeyIsEnvelopeId ==
    [][\A t \in ConcurrentThreads :
          (pc[t] = "poll_insert" /\ send_poll_message_insert(t)) =>
             /\ loc'[t].key = loc[t].command_id
             /\ loc'[t].key \notin DOMAIN pending_commands]_vars

\* The sum of one counter over a set of peers.
RECURSIVE SumOver(_, _)
SumOver(peers, counter) ==
    IF peers = {} THEN 0
    ELSE LET s == CHOOSE x \in peers : TRUE
         IN  board_stats[s][counter] + SumOver(peers \ {s}, counter)

\* Each global outcome counter is the sum of the peers' counters, and a
\* peer's total_commands is its response_count.
CountersAgree ==
    /\ \A counter \in OutcomeCounters : stats[counter] = SumOver(slaves, counter)
    /\ \A s \in slaves : board_stats[s].total_commands = board_stats[s].response_count

\* What a step adds to a peer's total_commands and to its successful and
\* failed responses together.
TotalGrowth(s) == board_stats'[s].total_commands - board_stats[s].total_commands

OutcomeGrowth(s) ==
    (board_stats'[s].successful_responses + board_stats'[s].failed_responses)
       - (board_stats[s].successful_responses + board_stats[s].failed_responses)

\* A peer's total_commands and its successful + failed responses grow
\* together, except that a processed response with status 'timeout' adds to
\* total_commands alone; all start at 0.
TimeoutResponsesMakeTheDifference ==
    /\ \A f \in Frames :
          (f.kind = "json" /\ on_message(f)) =>
             \A s \in slaves :
                TotalGrowth(s) - OutcomeGrowth(s) =
                   IF /\ f.client = s
                      /\ f.status = "timeout"
                      /\ f.id \in DOMAIN pending_commands
                      THEN 1 ELSE 0
    /\ (\A f \in Frames : ~(f.kind = "json" /\ on_message(f))) =>
          \A s \in slaves : TotalGrowth(s) = OutcomeGrowth(s)

\* C38: in every state each of the global successful, failed and timeout
\* counters is the sum of the configured peers' counters, and each peer's
\* total_commands equals its response_count and equals its successful plus
\* failed responses plus the number of its responses with status 'timeout'.
C38_CountersConsistent ==
    /\ []CountersAgree
    /\ [][TimeoutResponsesMakeTheDifference]_vars

\* C38 witness: a peer has one 'timeout' response and one timeout from the
\* timeout checker: two timeouts, one counted command.
C38_Witness ==
    \E s \in slaves :
        /\ board_stats[s].timeout_responses = 2
        /\ board_stats[s].total_commands = 1
        /\ board_stats[s].response_count = 1
        /\ board_stats[s].successful_responses + board_stats[s].failed_responses = 0
        /\ stats.timeout_responses >= 2

\* C39: in the master's session log, once no capture attempt is in progress,
\* photo_count equals the number of entries of photos and failures together;
\* the index values recorded in the entries are pairwise distinct; and no
\* two attempts were given the same photo_count for their file name.
C39_SessionLogCountsAttempts ==
    /\ (\A t \in ConcurrentThreads : shot[t].pc = "idle") => photo_count = Len(session)
    /\ \A i, j \in 1..Len(session) : i # j => session[i].index # session[j].index
    /\ \A i, j \in 1..Len(names) : i # j => names[i] # names[j]

\* the network scans run by the thread started for HIGH period k
ScansFor(k) == Cardinality({i \in 1..Len(scan_log) : scan_log[i].period = k})

\* C40: in the standalone watcher, a HIGH period of the pin that lasted
\* min_high_duration leads to the network scan being run, exactly once for
\* that period; and no scan is run for a period that a falling edge ended
\* before min_high_duration.
C40_LongHighRunsScanOnce ==
    /\ [](\A k \in 1..MaxPeriods :
            /\ ScansFor(k) <= 1
            /\ ScansFor(k) = 1 => k \in held)
    /\ \A k \in 1..MaxPeriods : (k \in held) ~> (ScansFor(k) = 1)

====
